---- MODULE Spec2Model ----
(***************************************************************************)
(* Model of SentryConsentIntegrationClass                                  *)
(* (src/demo/src/hooks/useZarazConsentShortcuts.ts, lines 215-952).        *)
(*                                                                         *)
(* Encoding of JavaScript values:                                          *)
(*   - a boolean-or-undefined value is one of the strings "true", "false", *)
(*     "undefined";                                                        *)
(*   - a numeric option is an integer: sample rates are in percent         *)
(*     (0.66 is 66, 1.0 is 100), maxBreadcrumbs is the count itself, and   *)
(*     Undef (-1) stands for undefined;                                    *)
(*   - a callback option is "undefined", "userFn" (the function the user   *)
(*     passed to Sentry.init) or "blockAll" (the integration's () => null);*)
(*   - an event is its number in 1..NumEvents; 0 stands for null.          *)
(* The integration runs on one JavaScript thread, so every handler is one  *)
(* atomic action.  processQueuedEvents is declared async but contains no   *)
(* await, so its body runs to completion inside the handler that calls it. *)
(***************************************************************************)
EXTENDS Integers, Sequences, FiniteSets, TLC

\* ------------------------------------------------------------------ bounds
MaxQueue == 2
NumEvents == 2

Events == 1..NumEvents
Null == 0
Undef == -1

Tri == {"true", "false", "undefined"}

\* ------------------------------------------------------- consent snapshots
PurposeOrder == <<"functional", "analytics", "marketing", "preferences">>
Purposes == {PurposeOrder[i] : i \in 1..Len(PurposeOrder)}

\* private currentConsentState: ConsentState = {}
EmptyConsentState == [p \in Purposes |-> "undefined"]

\* what one call of getConsentState can produce: "throw" when a getter
\* throws, otherwise a snapshot holding a boolean for every supplied getter
ReadOutcomes(getters) ==
    { [p \in Purposes |-> IF p \in getters THEN f[p] ELSE "undefined"] :
        f \in [Purposes -> {"true", "false"}] }

\* JSON.stringify of a snapshot: the defined keys in insertion order
RECURSIVE StringifyFrom(_, _)
StringifyFrom(cs, i) ==
    IF i > Len(PurposeOrder) THEN <<>>
    ELSE (IF cs[PurposeOrder[i]] = "undefined" THEN <<>>
          ELSE << <<PurposeOrder[i], cs[PurposeOrder[i]]>> >>)
         \o StringifyFrom(cs, i + 1)

JSONStringify(cs) == StringifyFrom(cs, 1)

\* JavaScript truthiness of a boolean-or-undefined value
Truthy(v) == v = "true"

\* v ?? false, as a boolean
OrFalse(v) == v = "true"

\* ------------------------------------------------------ client configuration
TrackedNumKeys ==
    {"maxBreadcrumbs", "profilesSampleRate", "replaysOnErrorSampleRate",
     "replaysSessionSampleRate", "sampleRate", "tracesSampleRate"}
TrackedBoolKeys == {"attachStacktrace", "autoSessionTracking", "sendDefaultPii"}
SENTRY_CONSENT_CONFIG_KEYS == TrackedNumKeys \cup TrackedBoolKeys
CallbackKeys == {"beforeBreadcrumb", "beforeSend", "beforeSendTransaction"}
OriginalKeys == SENTRY_CONSENT_CONFIG_KEYS \cup CallbackKeys
\* the fields a configuration patch writes
GatedKeys == OriginalKeys \cup {"enabled"}

SENTRY_DEFAULT_CONFIG ==
    [attachStacktrace |-> "false",
     autoSessionTracking |-> "true",
     maxBreadcrumbs |-> 100,
     profilesSampleRate |-> 0,
     replaysOnErrorSampleRate |-> 0,
     replaysSessionSampleRate |-> 0,
     sampleRate |-> 100,
     sendDefaultPii |-> "false",
     tracesSampleRate |-> 0]

\* is the value of option k undefined (or null)
IsUndefined(k, v) == IF k \in TrackedNumKeys THEN v = Undef ELSE v = "undefined"

\* a ?? b, for values of option k
Coalesce(k, a, b) == IF IsUndefined(k, a) THEN b ELSE a

\* the options of the demo's Sentry.init call
DemoOptions ==
    [enabled |-> "undefined",
     sampleRate |-> 66,
     beforeSend |-> "userFn",
     autoSessionTracking |-> "true",
     maxBreadcrumbs |-> 87,
     attachStacktrace |-> "true",
     tracesSampleRate |-> 80,
     profilesSampleRate |-> 20,
     beforeBreadcrumb |-> "undefined",
     beforeSendTransaction |-> "undefined",
     sendDefaultPii |-> "true",
     replaysSessionSampleRate |-> 30,
     replaysOnErrorSampleRate |-> 20,
     environment |-> "development"]

\* a Sentry.init call that sets none of the tracked options
BareOptions ==
    [enabled |-> "undefined",
     sampleRate |-> Undef,
     beforeSend |-> "undefined",
     autoSessionTracking |-> "undefined",
     maxBreadcrumbs |-> Undef,
     attachStacktrace |-> "undefined",
     tracesSampleRate |-> Undef,
     profilesSampleRate |-> Undef,
     beforeBreadcrumb |-> "undefined",
     beforeSendTransaction |-> "undefined",
     sendDefaultPii |-> "undefined",
     replaysSessionSampleRate |-> Undef,
     replaysOnErrorSampleRate |-> Undef,
     environment |-> "production"]

\* private originalSentryConfig: any = {}
EmptyOriginalConfig ==
    [k \in OriginalKeys |-> IF k \in TrackedNumKeys THEN Undef ELSE "undefined"]

buildTrackedConfigObject(source) ==
    [k \in SENTRY_CONSENT_CONFIG_KEYS |->
        Coalesce(k, source[k], SENTRY_DEFAULT_CONFIG[k])]

\* mutant: the callback options are not captured
captureOriginalSentryConfig_NoCallbacks(client, options) ==
    [k \in OriginalKeys |->
        IF k \in CallbackKeys THEN "undefined"
        ELSE IF client THEN buildTrackedConfigObject(options)[k]
        ELSE SENTRY_DEFAULT_CONFIG[k]]

\* captureOriginalSentryConfig: the value stored in originalSentryConfig
captureOriginalSentryConfig(client, options) ==
    IF client
    THEN [k \in OriginalKeys |->
            IF k \in CallbackKeys THEN options[k]
            ELSE buildTrackedConfigObject(options)[k]]
    ELSE [k \in OriginalKeys |->
            IF k \in CallbackKeys THEN "undefined"
            ELSE SENTRY_DEFAULT_CONFIG[k]]

\* ---------------------------------------------------------------- the scope
\* tag keys are sequences of characters
TagCampaign == <<"c","a","m","p","a","i","g","n">>
TagOther == <<"o","t","h","e","r">>
TagUtmSource == <<"U","T","M","_","S","o","u","r","c","e">>

MarketingContexts == {"marketing", "campaign", "cohort"}

marketingTagPatterns ==
    << <<"c","a","m","p","a","i","g","n">>,
       <<"c","o","h","o","r","t">>,
       <<"s","e","g","m","e","n","t">>,
       <<"e","x","p","e","r","i","m","e","n","t">>,
       <<"v","a","r","i","a","n","t">>,
       <<"s","o","u","r","c","e">>,
       <<"m","e","d","i","u","m">>,
       <<"c","h","a","n","n","e","l">>,
       <<"f","u","n","n","e","l">>,
       <<"j","o","u","r","n","e","y">>,
       <<"u","s","e","r","_","t","y","p","e">>,
       <<"s","u","b","s","c","r","i","p","t","i","o","n">>,
       <<"p","l","a","n">>,
       <<"t","i","e","r">> >>

UpperCaseLetters ==
    <<"A", "B", "C", "D", "E", "F", "G", "H", "I", "J", "K", "L", "M",
      "N", "O", "P", "Q", "R", "S", "T", "U", "V", "W", "X", "Y", "Z">>
LowerCaseLetters ==
    <<"a", "b", "c", "d", "e", "f", "g", "h", "i", "j", "k", "l", "m",
      "n", "o", "p", "q", "r", "s", "t", "u", "v", "w", "x", "y", "z">>
ToLowerChar(c) ==
    IF \E i \in 1..Len(UpperCaseLetters) : UpperCaseLetters[i] = c
    THEN LowerCaseLetters[CHOOSE i \in 1..Len(UpperCaseLetters) :
                              UpperCaseLetters[i] = c]
    ELSE c

ToLowerCase(s) == [i \in 1..Len(s) |-> ToLowerChar(s[i])]

Includes(s, p) ==
    \E i \in 1..(Len(s) - Len(p) + 1) : SubSeq(s, i, i + Len(p) - 1) = p

isMarketingTag(tagKey) ==
    \E i \in 1..Len(marketingTagPatterns) :
        Includes(ToLowerCase(tagKey), marketingTagPatterns[i])

\* the scope of the host: user is "none" (null) or a user id, tags is the set
\* of tag keys that are set, contexts the set of context names that are set
SampleScope ==
    [user |-> "demo-user",
     tags |-> {TagCampaign, TagOther, TagUtmSource},
     contexts |-> {"marketing", "device"}]
ScopeChoices == {SampleScope}

\* private originalScopeData: any = {}
EmptyOriginalScopeData ==
    [captured |-> FALSE, user |-> "none", tags |-> {}, contexts |-> {}]

\* captureOriginalScopeData: the value stored in originalScopeData
captureOriginalScopeData ==
    [captured |-> TRUE, user |-> "none", tags |-> {}, contexts |-> {}]

updateSentryScope(hasMarketingConsent, scope, osd) ==
    IF ~hasMarketingConsent
    THEN [user |-> "none",
          tags |-> scope.tags \ {t \in osd.tags : isMarketingTag(t)},
          contexts |-> scope.contexts \ MarketingContexts]
    ELSE [user |-> IF osd.user # "none" THEN osd.user ELSE scope.user,
          tags |-> scope.tags \cup osd.tags,
          contexts |-> scope.contexts \cup osd.contexts]

\* ------------------------------------------------- the recording subsystem
\* what Sentry.getReplay() returns: present is FALSE when there is no replay
\* instance, hasOptions is FALSE when neither _recordingOptions nor
\* _initialOptions is set; hasStop / hasStart say whether stopRecording /
\* startRecording are functions, stopThrows / startThrows whether they throw
SafeReplay ==
    [present |-> TRUE, hasOptions |-> TRUE,
     maskAllText |-> "true", maskAllInputs |-> "true",
     blockAllMedia |-> "true", networkCaptureBodies |-> "false",
     hasStop |-> TRUE, stopThrows |-> FALSE,
     hasStart |-> TRUE, startThrows |-> FALSE,
     recording |-> TRUE]
UnsafeTextReplay == [SafeReplay EXCEPT !.maskAllText = "false"]
NoReplay == [SafeReplay EXCEPT !.present = FALSE, !.recording = FALSE]

\* the warnings list of validateReplayPrivacySettings
ReplayWarnings(rp) ==
    (IF rp.maskAllText = "false" THEN <<"maskAllText">> ELSE <<>>)
    \o (IF rp.maskAllInputs = "false" THEN <<"maskAllInputs">> ELSE <<>>)
    \o (IF rp.blockAllMedia = "false" THEN <<"blockAllMedia">> ELSE <<>>)
    \o (IF rp.networkCaptureBodies = "true"
        THEN <<"networkCaptureBodies">> ELSE <<>>)

\* the guard state threaded through a pass: the replay instance, the flag
\* replayStoppedDueToUnsafeSettings, and the stopRecording / startRecording
\* calls made so far in the running operation
Guard(rp, flag, stops, starts) ==
    [replay |-> rp, flag |-> flag, stops |-> stops, starts |-> starts,
     validations |-> 0]

\* mutant: the flag is cleared before startRecording is called
attemptReplayResume_ClearsFlagFirst(g) ==
    IF g.replay.hasStart
    THEN IF g.replay.startThrows
         THEN [g EXCEPT !.starts = @ + 1, !.flag = FALSE]
         ELSE [g EXCEPT !.starts = @ + 1, !.flag = FALSE,
                        !.replay.recording = TRUE]
    ELSE [g EXCEPT !.flag = FALSE]

attemptReplayResume(g) ==
    IF g.replay.hasStart
    THEN IF g.replay.startThrows
         THEN [g EXCEPT !.starts = @ + 1]
         ELSE [g EXCEPT !.starts = @ + 1, !.flag = FALSE,
                        !.replay.recording = TRUE]
    ELSE g

\* mutant: recording is stopped only the first time unsafe settings are seen
validateReplayPrivacySettings_StopsOnce(client, g) ==
    LET v == [g EXCEPT !.validations = @ + 1] IN
    IF ~client THEN v
    ELSE IF ~v.replay.present THEN v
    ELSE IF ~v.replay.hasOptions THEN v
    ELSE IF Len(ReplayWarnings(v.replay)) > 0
    THEN IF v.replay.hasStop /\ ~v.flag
         THEN IF v.replay.stopThrows
              THEN [v EXCEPT !.stops = @ + 1]
              ELSE [v EXCEPT !.stops = @ + 1, !.flag = TRUE,
                             !.replay.recording = FALSE]
         ELSE v
    ELSE IF v.flag THEN attemptReplayResume(v) ELSE v

\* mutant: the flag is set although stopRecording is not available
validateReplayPrivacySettings_FlagsWithoutStop(client, g) ==
    LET v == [g EXCEPT !.validations = @ + 1] IN
    IF ~client THEN v
    ELSE IF ~v.replay.present THEN v
    ELSE IF ~v.replay.hasOptions THEN v
    ELSE IF Len(ReplayWarnings(v.replay)) > 0
    THEN IF v.replay.hasStop
         THEN IF v.replay.stopThrows
              THEN [v EXCEPT !.stops = @ + 1]
              ELSE [v EXCEPT !.stops = @ + 1, !.flag = TRUE,
                             !.replay.recording = FALSE]
         ELSE [v EXCEPT !.flag = TRUE]
    ELSE IF v.flag THEN attemptReplayResume(v) ELSE v

\* mutant: with the flag set, resume is attempted whatever the warnings
validateReplayPrivacySettings_ResumesDespiteWarnings(client, g) ==
    LET v == [g EXCEPT !.validations = @ + 1] IN
    IF ~client THEN v
    ELSE IF ~v.replay.present THEN v
    ELSE IF ~v.replay.hasOptions THEN v
    ELSE IF v.flag THEN attemptReplayResume(v)
    ELSE IF Len(ReplayWarnings(v.replay)) > 0
    THEN IF v.replay.hasStop
         THEN IF v.replay.stopThrows
              THEN [v EXCEPT !.stops = @ + 1]
              ELSE [v EXCEPT !.stops = @ + 1, !.flag = TRUE,
                             !.replay.recording = FALSE]
         ELSE v
    ELSE v

validateReplayPrivacySettings(client, g) ==
    LET v == [g EXCEPT !.validations = @ + 1] IN
    IF ~client THEN v
    ELSE IF ~v.replay.present THEN v
    ELSE IF ~v.replay.hasOptions THEN v
    ELSE IF Len(ReplayWarnings(v.replay)) > 0
    THEN IF v.replay.hasStop
         THEN IF v.replay.stopThrows
              \* the throw of stopRecording() is caught by the try / catch
              THEN [v EXCEPT !.stops = @ + 1]
              ELSE [v EXCEPT !.stops = @ + 1, !.flag = TRUE,
                             !.replay.recording = FALSE]
         ELSE v
    ELSE IF v.flag THEN attemptReplayResume(v) ELSE v

\* the replay instances validateReplayPrivacySettings can meet: no instance,
\* an instance without readable options, and instances with every
\* combination of the four privacy options and of the stopRecording /
\* startRecording methods
ReplayOptionKeys ==
    {"maskAllText", "maskAllInputs", "blockAllMedia", "networkCaptureBodies"}
MethodChoices == {<<FALSE, FALSE>>, <<TRUE, FALSE>>, <<TRUE, TRUE>>}
ReplayInstances ==
    {NoReplay, [SafeReplay EXCEPT !.hasOptions = FALSE]}
    \cup { [present |-> TRUE, hasOptions |-> TRUE,
            maskAllText |-> o.maskAllText, maskAllInputs |-> o.maskAllInputs,
            blockAllMedia |-> o.blockAllMedia,
            networkCaptureBodies |-> o.networkCaptureBodies,
            hasStop |-> st[1], stopThrows |-> st[2],
            hasStart |-> sa[1], startThrows |-> sa[2],
            recording |-> TRUE] :
            o \in [ReplayOptionKeys -> Tri],
            st \in MethodChoices, sa \in MethodChoices }

handleReplayConsentChange(previousPreferencesConsent, newPreferencesConsent, client, g) ==
    IF previousPreferencesConsent = newPreferencesConsent THEN g
    ELSE LET g1 == IF Truthy(newPreferencesConsent) /\ g.flag
                   THEN validateReplayPrivacySettings(client, g)
                   ELSE g
         IN  IF ~Truthy(newPreferencesConsent)
             THEN [g1 EXCEPT !.flag = FALSE]
             ELSE g1

\* mutant: true is returned whenever the re-validation was made
checkAndResumeReplay_TrueWhenValidated(preferences, client, g) ==
    IF ~g.flag THEN [guard |-> g, result |-> FALSE]
    ELSE IF ~Truthy(preferences) THEN [guard |-> g, result |-> FALSE]
    ELSE [guard |-> validateReplayPrivacySettings(client, g),
          result |-> TRUE]

\* checkAndResumeReplay(): the guard state it leaves and the boolean it
\* returns
checkAndResumeReplay(preferences, client, g) ==
    IF ~g.flag THEN [guard |-> g, result |-> FALSE]
    ELSE IF ~Truthy(preferences) THEN [guard |-> g, result |-> FALSE]
    ELSE LET g1 == validateReplayPrivacySettings(client, g)
         IN  [guard |-> g1, result |-> ~g1.flag]

\* ------------------------------------------------ configuration derivation
\* mutant: only an explicit false denies a purpose (=== false instead of !)
ConfigPatch_UndefinedGrants(consentState, orig) ==
    [enabled |->
        IF consentState.functional = "false" THEN "false" ELSE "true",
     sampleRate |->
        IF consentState.functional = "false" THEN 0 ELSE orig.sampleRate,
     beforeSend |->
        IF consentState.functional = "false" THEN "blockAll"
        ELSE orig.beforeSend,
     autoSessionTracking |->
        IF consentState.functional = "false" THEN "false"
        ELSE orig.autoSessionTracking,
     maxBreadcrumbs |->
        IF consentState.analytics = "false" THEN 0 ELSE orig.maxBreadcrumbs,
     attachStacktrace |->
        IF consentState.analytics = "false" THEN "false"
        ELSE orig.attachStacktrace,
     tracesSampleRate |->
        IF consentState.analytics = "false" THEN 0 ELSE orig.tracesSampleRate,
     profilesSampleRate |->
        IF consentState.analytics = "false" THEN 0
        ELSE orig.profilesSampleRate,
     beforeBreadcrumb |->
        IF consentState.analytics = "false" THEN "blockAll"
        ELSE orig.beforeBreadcrumb,
     beforeSendTransaction |->
        IF consentState.analytics = "false" THEN "blockAll"
        ELSE orig.beforeSendTransaction,
     sendDefaultPii |->
        IF consentState.preferences = "false" THEN "false"
        ELSE orig.sendDefaultPii,
     replaysSessionSampleRate |->
        IF consentState.preferences = "false" THEN 0
        ELSE orig.replaysSessionSampleRate,
     replaysOnErrorSampleRate |->
        IF consentState.preferences = "false" THEN 0
        ELSE orig.replaysOnErrorSampleRate]

\* the patch buildConsentBasedConfig returns
ConfigPatch(consentState, orig) ==
    [enabled |->
        IF ~Truthy(consentState.functional) THEN "false" ELSE "true",
     sampleRate |->
        IF ~Truthy(consentState.functional) THEN 0
        ELSE Coalesce("sampleRate", orig.sampleRate, 100),
     beforeSend |->
        IF ~Truthy(consentState.functional) THEN "blockAll"
        ELSE orig.beforeSend,
     autoSessionTracking |->
        IF ~Truthy(consentState.functional) THEN "false"
        ELSE Coalesce("autoSessionTracking", orig.autoSessionTracking, "true"),
     maxBreadcrumbs |->
        IF ~Truthy(consentState.analytics) THEN 0
        ELSE Coalesce("maxBreadcrumbs", orig.maxBreadcrumbs, 100),
     attachStacktrace |->
        IF ~Truthy(consentState.analytics) THEN "false"
        ELSE Coalesce("attachStacktrace", orig.attachStacktrace, "false"),
     tracesSampleRate |->
        IF ~Truthy(consentState.analytics) THEN 0
        ELSE Coalesce("tracesSampleRate", orig.tracesSampleRate, 0),
     profilesSampleRate |->
        IF ~Truthy(consentState.analytics) THEN 0
        ELSE Coalesce("profilesSampleRate", orig.profilesSampleRate, 0),
     beforeBreadcrumb |->
        IF ~Truthy(consentState.analytics) THEN "blockAll"
        ELSE orig.beforeBreadcrumb,
     beforeSendTransaction |->
        IF ~Truthy(consentState.analytics) THEN "blockAll"
        ELSE orig.beforeSendTransaction,
     sendDefaultPii |->
        IF ~Truthy(consentState.preferences) THEN "false"
        ELSE Coalesce("sendDefaultPii", orig.sendDefaultPii, "false"),
     replaysSessionSampleRate |->
        IF ~Truthy(consentState.preferences) THEN 0
        ELSE Coalesce("replaysSessionSampleRate",
                      orig.replaysSessionSampleRate, 0),
     replaysOnErrorSampleRate |->
        IF ~Truthy(consentState.preferences) THEN 0
        ELSE Coalesce("replaysOnErrorSampleRate",
                      orig.replaysOnErrorSampleRate, 0)]

\* mutant: the flag is not reset when preferences consent is not granted
buildConsentBasedConfig_KeepsFlag(consentState, orig, client, g) ==
    [config |-> ConfigPatch(consentState, orig),
     guard |-> IF ~Truthy(consentState.preferences)
               THEN g
               ELSE validateReplayPrivacySettings(client, g)]

\* mutant: the granted branch does not call validateReplayPrivacySettings
buildConsentBasedConfig_SkipsValidation(consentState, orig, client, g) ==
    [config |-> ConfigPatch(consentState, orig),
     guard |-> IF ~Truthy(consentState.preferences)
               THEN [g EXCEPT !.flag = FALSE]
               ELSE g]

\* buildConsentBasedConfig: the patch, and the guard state it leaves
buildConsentBasedConfig(consentState, orig, client, g) ==
    [config |-> ConfigPatch(consentState, orig),
     guard |-> IF ~Truthy(consentState.preferences)
               THEN [g EXCEPT !.flag = FALSE]
               ELSE validateReplayPrivacySettings(client, g)]

\* Object.assign(options, newConfig)
\* mutant: the client options are replaced by the patch, not merged with it
ObjectAssign_Replaces(options, newConfig) ==
    [k \in DOMAIN options |->
        IF k \in DOMAIN newConfig THEN newConfig[k] ELSE "undefined"]

ObjectAssign(options, newConfig) ==
    [k \in DOMAIN options |->
        IF k \in DOMAIN newConfig THEN newConfig[k] ELSE options[k]]

\* mutant: the patch is built but never assigned to the client options
applySentryConfiguration_SkipsAssign(consentState, orig, osd, client, options, scope, g) ==
    IF ~client
    THEN [options |-> options, scope |-> scope, guard |-> g, steps |-> <<>>]
    ELSE LET built == buildConsentBasedConfig(consentState, orig, client, g)
         IN  [options |-> options,
              scope |-> IF consentState.marketing # "undefined"
                        THEN updateSentryScope(Truthy(consentState.marketing),
                                               scope, osd)
                        ELSE scope,
              guard |-> built.guard,
              steps |-> <<>>]

\* applySentryConfiguration: the client options, scope and guard it leaves
applySentryConfiguration(consentState, orig, osd, client, options, scope, g) ==
    IF ~client
    THEN [options |-> options, scope |-> scope, guard |-> g, steps |-> <<>>]
    ELSE LET built == buildConsentBasedConfig(consentState, orig, client, g)
         IN  [options |-> ObjectAssign(options, built.config),
              scope |-> IF consentState.marketing # "undefined"
                        THEN updateSentryScope(Truthy(consentState.marketing),
                                               scope, osd)
                        ELSE scope,
              guard |-> built.guard,
              \* buildConsentBasedConfig, with the stop / start it makes,
              \* runs before Object.assign, updateSentryScope after it
              steps |-> (IF built.guard.validations > g.validations
                         THEN <<"validateReplayPrivacySettings">> ELSE <<>>)
                        \o (IF built.guard.stops > g.stops
                            THEN <<"stopRecording">> ELSE <<>>)
                        \o (IF built.guard.starts > g.starts
                            THEN <<"startRecording">> ELSE <<>>)
                        \o <<"Object.assign">>
                        \o (IF consentState.marketing # "undefined"
                            THEN <<"updateSentryScope">> ELSE <<>>)]

\* ------------------------------------------------------- the event pipeline
\* mutant: the gate looks at readiness only
processEvent_IgnoresConsent(event, ready, consent, queue) ==
    IF ready THEN [ret |-> event, queue |-> queue]
    ELSE [ret |-> Null, queue |-> Append(queue, event)]

\* mutant: an event captured while pending is dropped instead of queued
processEvent_DropsWhilePending(event, ready, consent, queue) ==
    IF ready /\ consent THEN [ret |-> event, queue |-> queue]
    ELSE [ret |-> Null, queue |-> queue]

\* mutant: an event blocked for lack of consent is kept in the queue
processEvent_QueuesWhenDenied(event, ready, consent, queue) ==
    IF ready /\ consent THEN [ret |-> event, queue |-> queue]
    ELSE [ret |-> Null, queue |-> Append(queue, event)]

\* processEvent: the value returned and the queue it leaves
processEvent(event, ready, consent, queue) ==
    IF ready /\ consent THEN [ret |-> event, queue |-> queue]
    ELSE IF ready /\ ~consent THEN [ret |-> Null, queue |-> queue]
    ELSE [ret |-> Null, queue |-> Append(queue, event)]

\* the drain state: the live eventQueue, the events handed to Sentry.capture*
\* (resent) and the events the integration's processEvent let through
\* (delivered)
Drain(queue, resent, delivered) ==
    [queue |-> queue, resent |-> resent, delivered |-> delivered]

\* Sentry.captureException / captureMessage / captureEvent of a queued event:
\* with a client the event runs through the client's event processors, one
\* of which is this integration's processEvent; without a client the call
\* does nothing
SentryCapture(event, client, ready, consent, throws, d) ==
    \* a throw of the capture call lands in the catch of the loop body
    IF throws THEN [d EXCEPT !.resent = Append(@, event)]
    ELSE IF ~client THEN [d EXCEPT !.resent = Append(@, event)]
    ELSE LET r == processEvent(event, ready, consent, d.queue)
         IN  [queue |-> r.queue,
              resent |-> Append(d.resent, event),
              delivered |-> IF r.ret = Null THEN d.delivered
                            ELSE Append(d.delivered, r.ret)]

\* the for loop of processQueuedEvents over the copied queuedEvents
\* the events a queue holds
Range(seq) == {seq[i] : i \in 1..Len(seq)}

RECURSIVE DrainLoop_AbortsOnThrow(_, _, _, _, _, _)
RECURSIVE DrainLoop(_, _, _, _, _, _)
\* mutant: the first capture that throws ends the loop
DrainLoop_AbortsOnThrow(queuedEvents, client, ready, consent, failing, d) ==
    IF queuedEvents = <<>> THEN d
    ELSE IF consent /\ Head(queuedEvents) \in failing
    THEN [d EXCEPT !.resent = Append(@, Head(queuedEvents))]
    ELSE DrainLoop_AbortsOnThrow(Tail(queuedEvents), client, ready, consent,
                   failing,
                   IF consent
                   THEN SentryCapture(Head(queuedEvents), client, ready,
                                      consent, FALSE, d)
                   ELSE d)

\* the for loop of processQueuedEvents; failing: the queued events whose
\* Sentry.capture* call throws
DrainLoop(queuedEvents, client, ready, consent, failing, d) ==
    IF queuedEvents = <<>> THEN d
    ELSE DrainLoop(Tail(queuedEvents), client, ready, consent, failing,
                   IF consent
                   THEN SentryCapture(Head(queuedEvents), client, ready,
                                      consent, Head(queuedEvents) \in failing,
                                      d)
                   ELSE d)

processQueuedEvents(queue, client, ready, consent, failing) ==
    DrainLoop(queue, client, ready, consent, failing, Drain(<<>>, <<>>, <<>>))

\* ------------------------------------------------------------ environments
\* the hosts an execution can start in: the getters the integrator supplies,
\* whether Sentry has a client, the options Sentry.init was called with, and
\* the replay integration
Environments ==
    { [getters |-> Purposes, client |-> TRUE, options |-> DemoOptions,
       replay |-> SafeReplay],
      [getters |-> Purposes, client |-> TRUE, options |-> DemoOptions,
       replay |-> UnsafeTextReplay],
      [getters |-> Purposes, client |-> TRUE, options |-> BareOptions,
       replay |-> NoReplay],
      [getters |-> Purposes \ {"marketing"}, client |-> TRUE,
       options |-> DemoOptions, replay |-> UnsafeTextReplay],
      [getters |-> Purposes \ {"functional"}, client |-> TRUE,
       options |-> BareOptions, replay |-> SafeReplay],
      [getters |-> Purposes, client |-> FALSE, options |-> DemoOptions,
       replay |-> NoReplay] }

\* the snapshots in which every supplied getter returns false / true
AllDenied(gs) == [p \in Purposes |-> IF p \in gs THEN "false" ELSE "undefined"]
AllGranted(gs) == [p \in Purposes |-> IF p \in gs THEN "true" ELSE "undefined"]

\* ------------------------------------------------------------------- state
VARIABLES
    \* fields of SentryConsentIntegrationClass
    isConsentReady,
    hasConsent,
    eventQueue,
    consentChangeCleanup,      \* TRUE when it holds the unsubscribe function
    currentConsentState,
    timeoutId,                 \* TRUE when it holds a timer id, FALSE for null
    originalSentryConfig,
    originalScopeData,
    replayStoppedDueToUnsafeSettings,
    \* the integrator's options and the host
    getters,                   \* the purposes that have a consent getter
    phase,                     \* "constructed" before setupOnce, then "setup"
    timerPending,              \* the setTimeout callback is still scheduled
    subscribed,                \* the trigger is registered with the platform
    client,                    \* Sentry.getClient() returns a client
    clientOptions,             \* client.getOptions()
    initialOptions,            \* the options Sentry.init was called with
    scope,                     \* Sentry.getCurrentScope()
    replay,                    \* Sentry.getReplay()
    \* what the last operation did
    lastOp,
    arg,                       \* the event passed to the last processEvent
    ret,                       \* value returned by the last processEvent call
    resent,                    \* events it handed to Sentry.capture*
    captureFailed,             \* those of them whose Sentry.capture* threw
    delivered,                 \* events processEvent returned during it
    discarded,                 \* queued events it dropped without re-sending
    stopCalls,                 \* stopRecording calls it made
    startCalls,                \* startRecording calls it made
    thrown,                    \* it threw to its caller
    changed,                   \* a trigger call found the consent changed
    afterDenyAll,              \* it was a pass that started from a retained
                               \* snapshot denying every purpose
    preferencesWas,            \* it was a pass: the preferences value of the
                               \* snapshot retained when it started
    replayWasStopped,          \* it was a pass: the value of
                               \* replayStoppedDueToUnsafeSettings at its start
    revalidated,               \* it was a validateReplayPrivacySettings call
                               \* that directly followed another one, the
                               \* replay options untouched in between
    wasCleanedUp,              \* it was a cleanup() call and cleanup() had
                               \* been called before
    lastRead,                  \* the consent state its getConsentState call
                               \* returned (the empty state when it made none)
    steps,                     \* the calls a reconciliation pass made on the
                               \* client, the scope, the recording subsystem
                               \* and the queue, in the order it made them
    resumed,                   \* value returned by checkAndResumeReplay()
    \* history
    readSucceeded,             \* some getConsentState call has returned
    unsubscribeCalls,          \* calls of the unsubscribe function so far
    cleanedUp                  \* cleanup() has been called

integrationVars ==
    <<isConsentReady, hasConsent, eventQueue, consentChangeCleanup,
      currentConsentState, timeoutId, originalSentryConfig, originalScopeData,
      replayStoppedDueToUnsafeSettings>>
hostVars ==
    <<getters, phase, timerPending, subscribed, client, clientOptions,
      initialOptions, scope, replay>>
opVars ==
    <<lastOp, arg, ret, resent, captureFailed, delivered, discarded,
      stopCalls, startCalls,
      thrown, changed, afterDenyAll, preferencesWas, replayWasStopped,
      revalidated, wasCleanedUp, lastRead, steps, resumed>>
historyVars == <<readSucceeded, unsubscribeCalls, cleanedUp>>
vars == <<integrationVars, hostVars, opVars, historyVars>>

Init ==
    /\ isConsentReady = FALSE
    /\ hasConsent = FALSE
    /\ eventQueue = <<>>
    /\ consentChangeCleanup = FALSE
    /\ currentConsentState = EmptyConsentState
    /\ timeoutId = FALSE
    /\ originalSentryConfig = EmptyOriginalConfig
    /\ originalScopeData = EmptyOriginalScopeData
    /\ replayStoppedDueToUnsafeSettings = FALSE
    /\ \E env \in Environments :
        /\ getters = env.getters
        /\ client = env.client
        /\ initialOptions = env.options
        /\ replay = env.replay
    /\ clientOptions = initialOptions
    /\ phase = "constructed"
    /\ timerPending = FALSE
    /\ subscribed = FALSE
    /\ scope \in ScopeChoices
    /\ lastOp = "new"
    /\ arg = Null
    /\ ret = Null
    /\ resent = <<>>
    /\ captureFailed = <<>>
    /\ delivered = <<>>
    /\ discarded = <<>>
    /\ stopCalls = 0
    /\ startCalls = 0
    /\ thrown = FALSE
    /\ changed = FALSE
    /\ afterDenyAll = FALSE
    /\ preferencesWas = "undefined"
    /\ replayWasStopped = FALSE
    /\ revalidated = FALSE
    /\ wasCleanedUp = FALSE
    /\ lastRead = EmptyConsentState
    /\ steps = <<>>
    /\ resumed = FALSE
    /\ readSucceeded = FALSE
    /\ unsubscribeCalls = 0
    /\ cleanedUp = FALSE

\* ----------------------------------------------------------------- actions
\* the guard state at the start of an operation
GuardNow == Guard(replay, replayStoppedDueToUnsafeSettings, 0, 0)

\* an operation that returns nothing and touches neither the recording
\* subsystem nor the telemetry client
QuietOp(name) ==
    /\ lastOp' = name
    /\ arg' = Null
    /\ ret' = Null
    /\ resent' = <<>>
    /\ captureFailed' = <<>>
    /\ delivered' = <<>>
    /\ stopCalls' = 0
    /\ startCalls' = 0
    /\ changed' = FALSE
    /\ afterDenyAll' = FALSE
    /\ preferencesWas' = "undefined"
    /\ replayWasStopped' = FALSE
    /\ revalidated' = FALSE
    /\ wasCleanedUp' = (name = "cleanup" /\ cleanedUp)
    /\ lastRead' = EmptyConsentState
    /\ steps' = <<>>
    /\ resumed' = FALSE

\* the stopRecording / startRecording calls recorded in a guard state
GuardSteps(g) ==
    (IF g.validations > 0 THEN <<"validateReplayPrivacySettings">> ELSE <<>>)
    \o (IF g.stops > 0 THEN <<"stopRecording">> ELSE <<>>)
    \o (IF g.starts > 0 THEN <<"startRecording">> ELSE <<>>)

\* handleConsentState(consentState): its effect on the fields it touches
handleConsentState(consentState) ==
    \E consent \in {OrFalse(consentState.functional)} :
    \E applied \in {applySentryConfiguration(consentState,
                       originalSentryConfig', originalScopeData', client,
                       clientOptions, scope, GuardNow)} :
    \E failing \in SUBSET Range(eventQueue) :
    \E d \in {IF consent
              THEN processQueuedEvents(eventQueue, client, TRUE, consent,
                                       failing)
              ELSE Drain(<<>>, <<>>, <<>>)} :
        /\ currentConsentState' = consentState
        /\ isConsentReady' = TRUE
        /\ hasConsent' = consent
        /\ clientOptions' = applied.options
        /\ scope' = applied.scope
        /\ replay' = applied.guard.replay
        /\ replayStoppedDueToUnsafeSettings' = applied.guard.flag
        /\ stopCalls' = applied.guard.stops
        /\ startCalls' = applied.guard.starts
        /\ eventQueue' = d.queue
        /\ resent' = d.resent
        /\ captureFailed' = SelectSeq(d.resent, LAMBDA e : e \in failing)
        /\ delivered' = d.delivered
        /\ discarded' = IF consent THEN <<>> ELSE eventQueue
        /\ lastRead' = consentState
        /\ steps' = applied.steps
                     \o (IF consent THEN <<"processQueuedEvents">>
                                    ELSE <<"clearEventQueue">>)
        /\ preferencesWas' = currentConsentState.preferences
        /\ replayWasStopped' = replayStoppedDueToUnsafeSettings
        \* clearTimeout(): no timer has been set at this point
        /\ timeoutId' = FALSE
        /\ timerPending' = FALSE
        /\ readSucceeded' = TRUE

\* mutant: the catch branch logs the failure but sets no timer
ScheduleTimeout_NoTimer ==
    /\ UNCHANGED <<timeoutId, timerPending, currentConsentState,
                   isConsentReady, hasConsent, clientOptions, scope, replay,
                   replayStoppedDueToUnsafeSettings, eventQueue,
                   readSucceeded>>
    /\ stopCalls' = 0
    /\ startCalls' = 0
    /\ resent' = <<>>
    /\ captureFailed' = <<>>
    /\ delivered' = <<>>
    /\ discarded' = <<>>
    /\ preferencesWas' = "undefined"
    /\ replayWasStopped' = FALSE
    /\ lastRead' = EmptyConsentState
    /\ steps' = <<>>

\* the catch branch of initializeConsentMonitoring: schedule the timeout
ScheduleTimeout ==
    /\ timeoutId' = TRUE
    /\ timerPending' = TRUE
    /\ UNCHANGED <<currentConsentState, isConsentReady, hasConsent,
                   clientOptions, scope, replay,
                   replayStoppedDueToUnsafeSettings, eventQueue,
                   readSucceeded>>
    /\ stopCalls' = 0
    /\ startCalls' = 0
    /\ resent' = <<>>
    /\ captureFailed' = <<>>
    /\ delivered' = <<>>
    /\ discarded' = <<>>
    /\ preferencesWas' = "undefined"
    /\ replayWasStopped' = FALSE
    /\ lastRead' = EmptyConsentState
    /\ steps' = <<>>

\* handleConsentState(consentState) when Sentry.getCurrentScope() throws in
\* updateSentryScope: the fields are set, the options are assigned, and the
\* error leaves handleConsentState before the queue is touched; the catch of
\* initializeConsentMonitoring then schedules the timeout
handleConsentStateThrows(consentState) ==
    \E built \in {buildConsentBasedConfig(consentState,
                       originalSentryConfig', client, GuardNow)} :
        /\ client
        /\ consentState.marketing # "undefined"
        /\ currentConsentState' = consentState
        /\ isConsentReady' = TRUE
        /\ hasConsent' = OrFalse(consentState.functional)
        /\ clientOptions' = ObjectAssign(clientOptions, built.config)
        /\ replay' = built.guard.replay
        /\ replayStoppedDueToUnsafeSettings' = built.guard.flag
        /\ stopCalls' = built.guard.stops
        /\ startCalls' = built.guard.starts
        /\ preferencesWas' = currentConsentState.preferences
        /\ replayWasStopped' = replayStoppedDueToUnsafeSettings
        /\ readSucceeded' = TRUE
        /\ timeoutId' = TRUE
        /\ timerPending' = TRUE
        /\ resent' = <<>>
        /\ captureFailed' = <<>>
        /\ delivered' = <<>>
        /\ discarded' = <<>>
        /\ lastRead' = consentState
        /\ steps' = GuardSteps(built.guard)
                     \o <<"Object.assign", "updateSentryScope">>
        /\ UNCHANGED <<scope, eventQueue>>

\* mutant: onConsentChange is called outside the try / catch
listenForConsentChanges_NoCatch(listenThrows) ==
    /\ consentChangeCleanup' = ~listenThrows
    /\ subscribed' = ~listenThrows
    /\ thrown' = listenThrows

\* listenForConsentChanges: onConsentChange(trigger) registers the trigger
\* and returns the unsubscribe function, or throws (caught and logged)
listenForConsentChanges(listenThrows) ==
    /\ consentChangeCleanup' = ~listenThrows
    /\ subscribed' = ~listenThrows
    /\ thrown' = FALSE

\* setupOnce(); readThrows: a consent getter throws during the initial read,
\* initialState: what the getters return otherwise, scopeThrows:
\* Sentry.getCurrentScope() throws, listenThrows: onConsentChange throws
SetupOnce(readThrows, initialState, scopeThrows, listenThrows) ==
    /\ phase = "constructed"
    /\ phase' = "setup"
    /\ originalSentryConfig' =
            captureOriginalSentryConfig(client, clientOptions)
    /\ originalScopeData' = captureOriginalScopeData
    /\ IF readThrows THEN ScheduleTimeout
       ELSE IF scopeThrows THEN handleConsentStateThrows(initialState)
       ELSE handleConsentState(initialState)
    /\ listenForConsentChanges(listenThrows)
    /\ lastOp' = "setupOnce"
    /\ arg' = Null
    /\ ret' = Null
    /\ changed' = FALSE
    /\ afterDenyAll' = FALSE
    /\ revalidated' = FALSE
    /\ wasCleanedUp' = FALSE
    /\ resumed' = FALSE
    /\ UNCHANGED <<getters, client, initialOptions, unsubscribeCalls,
                   cleanedUp>>

\* the host client runs processEvent(event, hint) for a captured event
ProcessEvent(event) ==
    LET r == processEvent(event, isConsentReady, hasConsent, eventQueue)
    IN  /\ Len(r.queue) <= MaxQueue
        /\ eventQueue' = r.queue
        /\ lastOp' = "processEvent"
        /\ arg' = event
        /\ ret' = r.ret
        /\ delivered' = IF r.ret = Null THEN <<>> ELSE <<r.ret>>
        /\ resent' = <<>>
        /\ captureFailed' = <<>>
        /\ discarded' = <<>>
        /\ stopCalls' = 0
        /\ startCalls' = 0
        /\ thrown' = FALSE
        /\ changed' = FALSE
        /\ afterDenyAll' = FALSE
        /\ preferencesWas' = "undefined"
        /\ replayWasStopped' = FALSE
        /\ revalidated' = FALSE
        /\ wasCleanedUp' = FALSE
        /\ lastRead' = EmptyConsentState
        /\ steps' = <<>>
        /\ resumed' = FALSE
        /\ UNCHANGED <<isConsentReady, hasConsent, consentChangeCleanup,
                       currentConsentState, timeoutId, originalSentryConfig,
                       originalScopeData, replayStoppedDueToUnsafeSettings>>
        /\ UNCHANGED <<hostVars, historyVars>>

\* mutant: the timeout callback forgets clearEventQueue()
TimeoutFires_KeepsQueue ==
    /\ timerPending
    /\ timerPending' = FALSE
    /\ isConsentReady' = TRUE
    /\ hasConsent' = FALSE
    /\ discarded' = <<>>
    /\ QuietOp("timeout")
    /\ thrown' = FALSE
    /\ UNCHANGED <<eventQueue, consentChangeCleanup, currentConsentState,
                   timeoutId, originalSentryConfig, originalScopeData,
                   replayStoppedDueToUnsafeSettings>>
    /\ UNCHANGED <<getters, phase, subscribed, client, clientOptions,
                   initialOptions, scope, replay>>
    /\ UNCHANGED historyVars

\* the setTimeout callback of initializeConsentMonitoring
TimeoutFires ==
    /\ timerPending
    /\ timerPending' = FALSE
    /\ isConsentReady' = TRUE
    /\ hasConsent' = FALSE
    /\ eventQueue' = <<>>
    /\ discarded' = eventQueue
    /\ QuietOp("timeout")
    /\ thrown' = FALSE
    /\ UNCHANGED <<consentChangeCleanup, currentConsentState, timeoutId,
                   originalSentryConfig, originalScopeData,
                   replayStoppedDueToUnsafeSettings>>
    /\ UNCHANGED <<getters, phase, subscribed, client, clientOptions,
                   initialOptions, scope, replay>>
    /\ UNCHANGED historyVars

\* the consent platform calls the trigger registered by onConsentChange and
\* a consent getter throws: getConsentState rethrows, the callback has no
\* try/catch, so the error reaches the caller of the trigger
ConsentChangeThrows ==
    /\ subscribed
    /\ QuietOp("trigger")
    /\ discarded' = <<>>
    /\ thrown' = TRUE
    /\ UNCHANGED <<integrationVars, hostVars, historyVars>>

\* mutant: every trigger call is treated as a change
consentChanged_Always(currentConsent, newConsentState, gate, retained) ==
    TRUE

\* mutant: only the snapshots are compared, not the gating flag
consentChanged_SnapshotOnly(currentConsent, newConsentState, gate, retained) ==
    JSONStringify(newConsentState) # JSONStringify(retained)

\* the change test of the trigger callback
consentChanged(currentConsent, newConsentState, gate, retained) ==
    \/ currentConsent # gate
    \/ JSONStringify(newConsentState) # JSONStringify(retained)

\* the consent platform calls the trigger, the getters return a changed
\* newConsentState and Sentry.getCurrentScope() throws in updateSentryScope:
\* the callback has no try / catch, so the assignments made so far stay,
\* handleReplayConsentChange and the drain are skipped, and the error reaches
\* the caller of the trigger
ConsentChangeScopeThrows(newConsentState) ==
    \E currentConsent \in {OrFalse(newConsentState.functional)} :
    \E built \in {buildConsentBasedConfig(newConsentState,
                       originalSentryConfig, client, GuardNow)} :
        /\ subscribed
        /\ consentChanged(currentConsent, newConsentState, hasConsent,
                          currentConsentState)
        /\ client
        /\ newConsentState.marketing # "undefined"
        /\ lastOp' = "trigger"
        /\ arg' = Null
        /\ ret' = Null
        /\ thrown' = TRUE
        /\ changed' = TRUE
        /\ discarded' = <<>>
        /\ revalidated' = FALSE
        /\ wasCleanedUp' = FALSE
        /\ resumed' = FALSE
        /\ lastRead' = newConsentState
        /\ readSucceeded' = TRUE
        /\ hasConsent' = currentConsent
        /\ currentConsentState' = newConsentState
        /\ afterDenyAll' = (currentConsentState = AllDenied(getters))
        /\ preferencesWas' = currentConsentState.preferences
        /\ replayWasStopped' = replayStoppedDueToUnsafeSettings
        /\ clientOptions' = ObjectAssign(clientOptions, built.config)
        /\ replay' = built.guard.replay
        /\ replayStoppedDueToUnsafeSettings' = built.guard.flag
        /\ stopCalls' = built.guard.stops
        /\ startCalls' = built.guard.starts
        /\ resent' = <<>>
        /\ captureFailed' = <<>>
        /\ delivered' = <<>>
        /\ steps' = GuardSteps(built.guard)
                     \o <<"Object.assign", "updateSentryScope">>
        /\ UNCHANGED <<scope, eventQueue>>
        /\ UNCHANGED <<isConsentReady, consentChangeCleanup, timeoutId,
                       originalSentryConfig, originalScopeData>>
        /\ UNCHANGED <<getters, phase, timerPending, subscribed, client,
                       initialOptions, unsubscribeCalls, cleanedUp>>

\* the consent platform calls the trigger and the getters return
\* newConsentState
ConsentChange(newConsentState) ==
    \E currentConsent \in {OrFalse(newConsentState.functional)} :
    \E isChange \in
        {consentChanged(currentConsent, newConsentState, hasConsent,
                        currentConsentState)} :
    \E applied \in {applySentryConfiguration(newConsentState,
                       originalSentryConfig, originalScopeData, client,
                       clientOptions, scope, GuardNow)} :
    \* this.currentConsentState already holds newConsentState when
    \* handleReplayConsentChange reads its preferences
    \E g \in {handleReplayConsentChange(newConsentState.preferences,
                                        newConsentState.preferences,
                                        client, applied.guard)} :
    \E failing \in SUBSET Range(eventQueue) :
    \E d \in {IF currentConsent
              THEN processQueuedEvents(eventQueue, client, isConsentReady,
                                       currentConsent, failing)
              ELSE Drain(eventQueue, <<>>, <<>>)} :
        /\ subscribed
        /\ lastOp' = "trigger"
        /\ arg' = Null
        /\ ret' = Null
        /\ thrown' = FALSE
        /\ changed' = isChange
        /\ discarded' = <<>>
        /\ revalidated' = FALSE
        /\ wasCleanedUp' = FALSE
        /\ resumed' = FALSE
        /\ lastRead' = newConsentState
        /\ readSucceeded' = TRUE
        /\ IF isChange
           THEN /\ hasConsent' = currentConsent
                /\ currentConsentState' = newConsentState
                /\ afterDenyAll' = (currentConsentState = AllDenied(getters))
                /\ preferencesWas' = currentConsentState.preferences
                /\ replayWasStopped' = replayStoppedDueToUnsafeSettings
                /\ clientOptions' = applied.options
                /\ scope' = applied.scope
                /\ replay' = g.replay
                /\ replayStoppedDueToUnsafeSettings' = g.flag
                /\ stopCalls' = g.stops
                /\ startCalls' = g.starts
                /\ eventQueue' = d.queue
                /\ resent' = d.resent
                /\ captureFailed' = SelectSeq(d.resent, LAMBDA e : e \in failing)
                /\ delivered' = d.delivered
                /\ steps' = applied.steps
                             \o (IF g.validations > applied.guard.validations
                                 THEN <<"validateReplayPrivacySettings">>
                                 ELSE <<>>)
                             \o (IF g.stops > applied.guard.stops
                                 THEN <<"stopRecording">> ELSE <<>>)
                             \o (IF g.starts > applied.guard.starts
                                 THEN <<"startRecording">> ELSE <<>>)
                             \o (IF currentConsent
                                 THEN <<"processQueuedEvents">> ELSE <<>>)
           ELSE /\ UNCHANGED <<hasConsent, currentConsentState,
                               clientOptions, scope, replay,
                               replayStoppedDueToUnsafeSettings, eventQueue>>
                /\ afterDenyAll' = FALSE
                /\ preferencesWas' = "undefined"
                /\ replayWasStopped' = FALSE
                /\ stopCalls' = 0
                /\ startCalls' = 0
                /\ resent' = <<>>
                /\ captureFailed' = <<>>
                /\ delivered' = <<>>
                /\ steps' = <<>>
        /\ UNCHANGED <<isConsentReady, consentChangeCleanup, timeoutId,
                       originalSentryConfig, originalScopeData>>
        /\ UNCHANGED <<getters, phase, timerPending, subscribed, client,
                       initialOptions, unsubscribeCalls, cleanedUp>>

\* mutant: cleanup() forgets clearTimeout()
Cleanup_KeepsTimer ==
    /\ UNCHANGED <<timeoutId, timerPending>>
    /\ consentChangeCleanup' = FALSE
    /\ subscribed' = IF consentChangeCleanup THEN FALSE ELSE subscribed
    /\ unsubscribeCalls' =
            IF consentChangeCleanup THEN unsubscribeCalls + 1
            ELSE unsubscribeCalls
    /\ eventQueue' = <<>>
    /\ discarded' = eventQueue
    /\ replayStoppedDueToUnsafeSettings' = FALSE
    /\ cleanedUp' = TRUE
    /\ QuietOp("cleanup")
    /\ thrown' = FALSE
    /\ UNCHANGED <<isConsentReady, hasConsent, currentConsentState,
                   originalSentryConfig, originalScopeData>>
    /\ UNCHANGED <<getters, phase, client, clientOptions, initialOptions,
                   scope, replay, readSucceeded>>

\* mutant: cleanup() calls the unsubscribe function but keeps it
Cleanup_KeepsUnsubscribe ==
    /\ timeoutId' = FALSE
    /\ timerPending' = IF timeoutId THEN FALSE ELSE timerPending
    /\ UNCHANGED consentChangeCleanup
    /\ subscribed' = IF consentChangeCleanup THEN FALSE ELSE subscribed
    /\ unsubscribeCalls' =
            IF consentChangeCleanup THEN unsubscribeCalls + 1
            ELSE unsubscribeCalls
    /\ eventQueue' = <<>>
    /\ discarded' = eventQueue
    /\ replayStoppedDueToUnsafeSettings' = FALSE
    /\ cleanedUp' = TRUE
    /\ QuietOp("cleanup")
    /\ thrown' = FALSE
    /\ UNCHANGED <<isConsentReady, hasConsent, currentConsentState,
                   originalSentryConfig, originalScopeData>>
    /\ UNCHANGED <<getters, phase, client, clientOptions, initialOptions,
                   scope, replay, readSucceeded>>

\* mutant: cleanup() also resets readiness
Cleanup_ResetsReadiness ==
    /\ timeoutId' = FALSE
    /\ timerPending' = IF timeoutId THEN FALSE ELSE timerPending
    /\ consentChangeCleanup' = FALSE
    /\ subscribed' = IF consentChangeCleanup THEN FALSE ELSE subscribed
    /\ unsubscribeCalls' =
            IF consentChangeCleanup THEN unsubscribeCalls + 1
            ELSE unsubscribeCalls
    /\ eventQueue' = <<>>
    /\ discarded' = eventQueue
    /\ replayStoppedDueToUnsafeSettings' = FALSE
    /\ cleanedUp' = TRUE
    /\ QuietOp("cleanup")
    /\ thrown' = FALSE
    /\ isConsentReady' = FALSE
    /\ UNCHANGED <<hasConsent, currentConsentState,
                   originalSentryConfig, originalScopeData>>
    /\ UNCHANGED <<getters, phase, client, clientOptions, initialOptions,
                   scope, replay, readSucceeded>>

\* cleanup()
Cleanup ==
    /\ timeoutId' = FALSE
    /\ timerPending' = IF timeoutId THEN FALSE ELSE timerPending
    /\ consentChangeCleanup' = FALSE
    /\ subscribed' = IF consentChangeCleanup THEN FALSE ELSE subscribed
    /\ unsubscribeCalls' =
            IF consentChangeCleanup THEN unsubscribeCalls + 1
            ELSE unsubscribeCalls
    /\ eventQueue' = <<>>
    /\ discarded' = eventQueue
    /\ replayStoppedDueToUnsafeSettings' = FALSE
    /\ cleanedUp' = TRUE
    /\ QuietOp("cleanup")
    /\ thrown' = FALSE
    /\ UNCHANGED <<isConsentReady, hasConsent, currentConsentState,
                   originalSentryConfig, originalScopeData>>
    /\ UNCHANGED <<getters, phase, client, clientOptions, initialOptions,
                   scope, replay, readSucceeded>>

\* mutant: the accessor hands out the stored object itself
getOriginalSentryConfig_SharesObject(config) ==
    [shared |-> TRUE, object |-> config]

\* getOriginalSentryConfig(): { ...this.originalSentryConfig }, a new object
\* with the same fields; shared tells whether a write to the returned
\* object is a write to the stored one
getOriginalSentryConfig(config) ==
    [shared |-> FALSE, object |-> config]

\* the host calls getOriginalSentryConfig() and overwrites a field of the
\* object it got
ReadOriginalConfig ==
    /\ \E got \in {getOriginalSentryConfig(originalSentryConfig)} :
            originalSentryConfig' =
                IF got.shared
                THEN [got.object EXCEPT !.maxBreadcrumbs = 1]
                ELSE originalSentryConfig
    /\ discarded' = <<>>
    /\ QuietOp("getOriginalSentryConfig")
    /\ thrown' = FALSE
    /\ UNCHANGED <<isConsentReady, hasConsent, eventQueue,
                   consentChangeCleanup, currentConsentState, timeoutId,
                   originalScopeData, replayStoppedDueToUnsafeSettings>>
    /\ UNCHANGED hostVars
    /\ UNCHANGED historyVars

CheckAndResumeReplay ==
    /\ \E r \in {checkAndResumeReplay(currentConsentState.preferences,
                                      client, GuardNow)} :
            /\ replay' = r.guard.replay
            /\ replayStoppedDueToUnsafeSettings' = r.guard.flag
            /\ stopCalls' = r.guard.stops
            /\ startCalls' = r.guard.starts
            /\ steps' = GuardSteps(r.guard)
            /\ resumed' = r.result
    /\ lastOp' = "checkAndResumeReplay"
    /\ arg' = Null
    /\ ret' = Null
    /\ resent' = <<>>
    /\ captureFailed' = <<>>
    /\ delivered' = <<>>
    /\ discarded' = <<>>
    /\ changed' = FALSE
    /\ afterDenyAll' = FALSE
    /\ preferencesWas' = "undefined"
    /\ replayWasStopped' = FALSE
    /\ revalidated' = FALSE
    /\ wasCleanedUp' = FALSE
    /\ lastRead' = EmptyConsentState
    /\ thrown' = FALSE
    /\ UNCHANGED <<isConsentReady, hasConsent, eventQueue,
                   consentChangeCleanup, currentConsentState, timeoutId,
                   originalSentryConfig, originalScopeData>>
    /\ UNCHANGED <<getters, phase, subscribed, timerPending, client,
                   clientOptions, initialOptions, scope>>
    /\ UNCHANGED historyVars

Next ==
    \/ \E s \in ReadOutcomes(getters), l \in BOOLEAN :
            SetupOnce(FALSE, s, FALSE, l)
    \/ \E s \in ReadOutcomes(getters), l \in BOOLEAN :
            SetupOnce(FALSE, s, TRUE, l)
    \/ \E l \in BOOLEAN : SetupOnce(TRUE, EmptyConsentState, FALSE, l)
    \/ \E e \in Events : ProcessEvent(e)
    \/ TimeoutFires
    \/ ConsentChangeThrows
    \/ \E s \in ReadOutcomes(getters) : ConsentChange(s)
    \/ \E s \in ReadOutcomes(getters) : ConsentChangeScopeThrows(s)
    \/ Cleanup
    \/ ReadOriginalConfig
    \/ CheckAndResumeReplay

Spec == Init /\ [][Next]_vars

\* the timeout callback runs once its delay has elapsed
FairSpec == Spec /\ WF_vars(TimeoutFires)

\* ---------------------------------------- the recording guard on its own
\* validateReplayPrivacySettings against every replay instance: an integration
\* whose host has any of ReplayInstances (none when there is no client)
GuardInit ==
    /\ isConsentReady = FALSE
    /\ hasConsent = FALSE
    /\ eventQueue = <<>>
    /\ consentChangeCleanup = FALSE
    /\ currentConsentState = EmptyConsentState
    /\ timeoutId = FALSE
    /\ originalSentryConfig = EmptyOriginalConfig
    /\ originalScopeData = EmptyOriginalScopeData
    /\ replayStoppedDueToUnsafeSettings = FALSE
    /\ getters = Purposes
    /\ client \in BOOLEAN
    /\ replay \in IF client THEN ReplayInstances ELSE {NoReplay}
    /\ initialOptions = DemoOptions
    /\ clientOptions = initialOptions
    /\ phase = "constructed"
    /\ timerPending = FALSE
    /\ subscribed = FALSE
    /\ scope \in ScopeChoices
    /\ lastOp = "new"
    /\ arg = Null
    /\ ret = Null
    /\ resent = <<>>
    /\ captureFailed = <<>>
    /\ delivered = <<>>
    /\ discarded = <<>>
    /\ stopCalls = 0
    /\ startCalls = 0
    /\ thrown = FALSE
    /\ changed = FALSE
    /\ afterDenyAll = FALSE
    /\ preferencesWas = "undefined"
    /\ replayWasStopped = FALSE
    /\ revalidated = FALSE
    /\ wasCleanedUp = FALSE
    /\ lastRead = EmptyConsentState
    /\ steps = <<>>
    /\ resumed = FALSE
    /\ readSucceeded = FALSE
    /\ unsubscribeCalls = 0
    /\ cleanedUp = FALSE

\* one call of validateReplayPrivacySettings(); its try / catch lets nothing
\* reach the caller
ValidateReplay ==
    \E g \in {validateReplayPrivacySettings(client, GuardNow)} :
        /\ replay' = g.replay
        /\ replayStoppedDueToUnsafeSettings' = g.flag
        /\ stopCalls' = g.stops
        /\ startCalls' = g.starts
        /\ replayWasStopped' = replayStoppedDueToUnsafeSettings
        /\ revalidated' = (lastOp = "validate")
        /\ lastOp' = "validate"
        /\ thrown' = FALSE
        /\ UNCHANGED <<arg, ret, resent, captureFailed, delivered, discarded, changed,
                       afterDenyAll, preferencesWas>>
        /\ UNCHANGED <<wasCleanedUp, lastRead, steps, resumed>>
        /\ UNCHANGED <<isConsentReady, hasConsent, eventQueue,
                       consentChangeCleanup, currentConsentState, timeoutId,
                       originalSentryConfig, originalScopeData>>
        /\ UNCHANGED <<getters, phase, timerPending, subscribed, client,
                       clientOptions, initialOptions, scope>>
        /\ UNCHANGED historyVars

\* the host gives the replay instance other privacy options (the integrator
\* fixes, or breaks, the replayIntegration settings)
ReplayOptionsChange(o) ==
    /\ replay.present /\ replay.hasOptions
    /\ \E k \in ReplayOptionKeys : replay[k] # o[k]
    /\ replay' = [replay EXCEPT !.maskAllText = o.maskAllText,
                                !.maskAllInputs = o.maskAllInputs,
                                !.blockAllMedia = o.blockAllMedia,
                                !.networkCaptureBodies =
                                    o.networkCaptureBodies]
    /\ lastOp' = "replayOptions"
    /\ stopCalls' = 0
    /\ startCalls' = 0
    /\ thrown' = FALSE
    /\ replayWasStopped' = FALSE
    /\ revalidated' = FALSE
    /\ UNCHANGED <<arg, ret, resent, captureFailed, delivered, discarded, changed,
                   afterDenyAll, preferencesWas>>
    /\ UNCHANGED <<wasCleanedUp, lastRead, steps, resumed>>
    /\ UNCHANGED integrationVars
    /\ UNCHANGED <<getters, phase, timerPending, subscribed, client,
                   clientOptions, initialOptions, scope>>
    /\ UNCHANGED historyVars

GuardNext ==
    \/ ValidateReplay
    \/ \E o \in [ReplayOptionKeys -> Tri] : ReplayOptionsChange(o)

GuardSpec == GuardInit /\ [][GuardNext]_vars

\* ------------------------------------------ the integration and its replay
\* the integration with a host that changes the privacy options of the
\* replay integration while it runs; no events are captured
ReplayEnvironments ==
    { [getters |-> Purposes, client |-> TRUE, options |-> DemoOptions,
       replay |-> rp] :
        rp \in {SafeReplay, UnsafeTextReplay,
                [UnsafeTextReplay EXCEPT !.hasStart = FALSE],
                [UnsafeTextReplay EXCEPT !.startThrows = TRUE]} }

\* the privacy options the host switches between
ReplayFixes ==
    { [k \in ReplayOptionKeys |-> SafeReplay[k]],
      [k \in ReplayOptionKeys |-> UnsafeTextReplay[k]] }

ReplayInit ==
    /\ isConsentReady = FALSE
    /\ hasConsent = FALSE
    /\ eventQueue = <<>>
    /\ consentChangeCleanup = FALSE
    /\ currentConsentState = EmptyConsentState
    /\ timeoutId = FALSE
    /\ originalSentryConfig = EmptyOriginalConfig
    /\ originalScopeData = EmptyOriginalScopeData
    /\ replayStoppedDueToUnsafeSettings = FALSE
    /\ \E env \in ReplayEnvironments :
        /\ getters = env.getters
        /\ client = env.client
        /\ initialOptions = env.options
        /\ replay = env.replay
    /\ clientOptions = initialOptions
    /\ phase = "constructed"
    /\ timerPending = FALSE
    /\ subscribed = FALSE
    /\ scope \in ScopeChoices
    /\ lastOp = "new"
    /\ arg = Null
    /\ ret = Null
    /\ resent = <<>>
    /\ captureFailed = <<>>
    /\ delivered = <<>>
    /\ discarded = <<>>
    /\ stopCalls = 0
    /\ startCalls = 0
    /\ thrown = FALSE
    /\ changed = FALSE
    /\ afterDenyAll = FALSE
    /\ preferencesWas = "undefined"
    /\ replayWasStopped = FALSE
    /\ revalidated = FALSE
    /\ wasCleanedUp = FALSE
    /\ lastRead = EmptyConsentState
    /\ steps = <<>>
    /\ resumed = FALSE
    /\ readSucceeded = FALSE
    /\ unsubscribeCalls = 0
    /\ cleanedUp = FALSE

ReplayNext ==
    \/ \E s \in ReadOutcomes(getters) : SetupOnce(FALSE, s, FALSE, FALSE)
    \/ SetupOnce(TRUE, EmptyConsentState, FALSE, FALSE)
    \/ TimeoutFires
    \/ \E s \in ReadOutcomes(getters) : ConsentChange(s)
    \/ \E s \in ReadOutcomes(getters) : ConsentChangeScopeThrows(s)
    \/ CheckAndResumeReplay
    \/ \E o \in ReplayFixes : ReplayOptionsChange(o)
    \/ Cleanup

ReplaySpec == ReplayInit /\ [][ReplayNext]_vars

\* ------------------------------------------------------------------ claims
\* the last operation was a reconciliation pass (the setup read or a trigger
\* call that found a change) and it applied a configuration to the client
PassApplied ==
    /\ client
    /\ \/ lastOp = "setupOnce" /\ isConsentReady /\ ~timerPending
       \/ lastOp = "trigger" /\ changed

\* C1: whenever the functional value of the retained consent snapshot is
\* false or undefined, no processEvent call of the last operation (the host's
\* call or a re-entrant one) returned an event: processEvent returned null.
C1_NoFunctionalConsentNoPassThrough ==
    currentConsentState.functional # "true" =>
        (ret = Null /\ delivered = <<>>)

C1_Witness ==
    /\ lastOp = "processEvent"
    /\ arg # Null
    /\ isConsentReady
    /\ readSucceeded
    /\ currentConsentState.functional = "undefined"
    /\ ret = Null

\* C2: when readiness is Ready and the functional value of the retained
\* snapshot is true, processEvent(event, hint) returns the same event.
C2_ReadyAndGrantedPassesThrough ==
    (/\ lastOp = "processEvent"
     /\ isConsentReady
     /\ currentConsentState.functional = "true") => ret = arg

\* C3: while readiness is Pending processEvent appends exactly its event at
\* the tail of the queue and returns null; in every state it leaves the
\* client configuration, the consent snapshot and readiness unchanged.
C3_ProcessEventQueuesWhilePending ==
    [][lastOp' = "processEvent" =>
        /\ ~isConsentReady =>
              (eventQueue' = Append(eventQueue, arg') /\ ret' = Null)
        /\ clientOptions' = clientOptions
        /\ currentConsentState' = currentConsentState
        /\ isConsentReady' = isConsentReady]_vars

C3_Witness ==
    /\ lastOp = "processEvent"
    /\ ~isConsentReady
    /\ Len(eventQueue) = 2
    /\ eventQueue[2] = arg
    /\ eventQueue[1] # arg
    /\ ret = Null

\* the timeout callback has just run and no consent read had succeeded
TimeoutAfterFailedRead == lastOp = "timeout" /\ ~readSucceeded

\* what the claim C4 says of the state after the timeout, for a retained
\* snapshot holding value v for every purpose
TimeoutOutcome(v) ==
    /\ isConsentReady
    /\ \A p \in Purposes : currentConsentState[p] = v
    /\ eventQueue = <<>>
    /\ resent = <<>>
    /\ captureFailed = <<>>
    /\ \A e \in Events :
          processEvent(e, isConsentReady, hasConsent, eventQueue).ret = Null

\* C4 as stated: after the timeout fires with no successful read, readiness
\* is Ready, the retained ConsentState is false for every purpose, the queued
\* events are discarded without re-submission and processEvent returns null.
C4_TimeoutForcesAllFalse == TimeoutAfterFailedRead => TimeoutOutcome("false")

\* C4 as amended: the same, except that the retained ConsentState is still
\* the empty snapshot: every purpose undefined (not granted), none false.
C4_TimeoutLeavesEmptySnapshot ==
    TimeoutAfterFailedRead => TimeoutOutcome("undefined")

C4_Witness ==
    /\ TimeoutAfterFailedRead
    /\ Len(discarded) = 2
    /\ eventQueue = <<>>

\* C5: after setupOnce readiness eventually becomes Ready and the queue is
\* empty, unless cleanup() cancelled the scheduled timeout first.
C5_EventuallyReady ==
    (phase = "setup") ~>
        ((isConsentReady /\ eventQueue = <<>>) \/ (cleanedUp /\ ~timerPending))

C5_Witness ==
    /\ lastOp = "timeout"
    /\ isConsentReady
    /\ ~cleanedUp
    /\ discarded # <<>>

\* the denied values of the purpose-gated numeric and boolean options
DeniedConfig(o) ==
    /\ o.enabled = "false"
    /\ o.sampleRate = 0
    /\ o.maxBreadcrumbs = 0
    /\ o.tracesSampleRate = 0
    /\ o.profilesSampleRate = 0
    /\ o.sendDefaultPii = "false"
    /\ o.replaysSessionSampleRate = 0
    /\ o.replaysOnErrorSampleRate = 0

\* C6: after the timeout fallback fires the client configuration holds the
\* denied values for every purpose.
C6_TimeoutAppliesDeniedConfig ==
    (lastOp = "timeout" /\ client) => DeniedConfig(clientOptions)

\* every ConsentState: each purpose true, false or undefined
ConsentStates == [Purposes -> Tri]

\* the table of section 4.2: the fields of each purpose take the denied
\* values unless the purpose is true, and the OriginalConfig values when it is
TablePatch(cs, orig) ==
    [k \in GatedKeys |->
        CASE k = "enabled" ->
                IF cs.functional = "true" THEN "true" ELSE "false"
          [] k = "sampleRate" ->
                IF cs.functional = "true" THEN orig[k] ELSE 0
          [] k = "beforeSend" ->
                IF cs.functional = "true" THEN orig[k] ELSE "blockAll"
          [] k = "autoSessionTracking" ->
                IF cs.functional = "true" THEN orig[k] ELSE "false"
          [] k \in {"maxBreadcrumbs", "tracesSampleRate",
                    "profilesSampleRate"} ->
                IF cs.analytics = "true" THEN orig[k] ELSE 0
          [] k = "attachStacktrace" ->
                IF cs.analytics = "true" THEN orig[k] ELSE "false"
          [] k \in {"beforeBreadcrumb", "beforeSendTransaction"} ->
                IF cs.analytics = "true" THEN orig[k] ELSE "blockAll"
          [] k = "sendDefaultPii" ->
                IF cs.preferences = "true" THEN orig[k] ELSE "false"
          [] k \in {"replaysSessionSampleRate",
                    "replaysOnErrorSampleRate"} ->
                IF cs.preferences = "true" THEN orig[k] ELSE 0]

\* C7: for every ConsentState and the captured OriginalConfig, the patch
\* derived by buildConsentBasedConfig equals the table of section 4.2.
C7_PatchMatchesTable ==
    phase = "setup" =>
        \A cs \in ConsentStates :
            ConfigPatch(cs, originalSentryConfig)
                = TablePatch(cs, originalSentryConfig)

C7_Witness ==
    /\ PassApplied
    /\ currentConsentState.functional = "false"
    /\ currentConsentState.analytics = "true"
    /\ currentConsentState.preferences = "true"
    /\ clientOptions.enabled = "false"
    /\ clientOptions.sampleRate = 0
    /\ clientOptions.maxBreadcrumbs = 87
    /\ clientOptions.sendDefaultPii = "true"

\* a change-notification pass that grants every purpose, starting from a
\* retained snapshot that denies every purpose, with a client present
RoundTripStep ==
    /\ {"functional", "analytics", "preferences"} \subseteq getters
    /\ client
    /\ currentConsentState = AllDenied(getters)
    /\ lastOp' = "trigger"
    /\ changed'
    /\ currentConsentState' = AllGranted(getters)

\* C8 as stated: after capture, a deny-all pass and a grant-all pass, every
\* purpose-gated field of the client configuration equals its value at
\* capture time.
C8_RoundTripRestoresCaptureTimeValues ==
    [][RoundTripStep =>
        \A k \in GatedKeys : clientOptions'[k] = initialOptions[k]]_vars

\* C8 as amended: every option tracked in OriginalConfig equals its capture
\* time value, or Sentry's default where it was unset at capture time; the
\* three callbacks equal their capture time values; enabled, which is not
\* captured, is true.
C8_RoundTripRestoresOriginalConfig ==
    [][RoundTripStep =>
        /\ clientOptions'.enabled = "true"
        /\ \A k \in SENTRY_CONSENT_CONFIG_KEYS :
              clientOptions'[k] =
                 IF IsUndefined(k, initialOptions[k])
                 THEN SENTRY_DEFAULT_CONFIG[k]
                 ELSE initialOptions[k]
        /\ \A k \in CallbackKeys : clientOptions'[k] = initialOptions[k]]_vars

C8_Witness ==
    /\ lastOp = "trigger"
    /\ changed
    /\ afterDenyAll
    /\ client
    /\ getters = Purposes
    /\ currentConsentState = AllGranted(getters)
    /\ clientOptions.beforeSend = "userFn"
    /\ clientOptions.sampleRate = 66

\* C9: a reconciliation pass in which marketing is undefined clears the user
\* identity and the marketing contexts of the scope, as for marketing false.
C9_UndefinedMarketingClearsScope ==
    (PassApplied /\ currentConsentState.marketing = "undefined") =>
        /\ scope.user = "none"
        /\ scope.contexts \cap MarketingContexts = {}

\* C10: when a change notification grants functional consent while readiness
\* is still Pending, every queued event is re-submitted and delivered through
\* processEvent, and none is put back into the queue.
C10_GrantWhilePendingDeliversQueue ==
    [][(/\ lastOp' = "trigger"
        /\ changed'
        /\ hasConsent'
        /\ ~isConsentReady') =>
            /\ resent' = eventQueue
            /\ delivered' = eventQueue
            /\ eventQueue' = <<>>]_vars

\* C11: an event captured while readiness is Pending is blocked and not
\* queued (processEvent returns null and leaves the queue as it was), and no
\* operation other than processEvent itself ever delivers an event
C11_PendingEventsNotQueued ==
    [][/\ (lastOp' = "processEvent" /\ ~isConsentReady)
            => (ret' = Null /\ eventQueue' = eventQueue)
       /\ lastOp' # "processEvent" => delivered' = <<>>]_vars

\* a step that drains the queue: a successful setup read, a trigger call that
\* finds functional consent granted by a changed state, the timeout callback,
\* or cleanup()
DrainStep ==
    \/ lastOp' = "setupOnce" /\ isConsentReady' /\ ~timerPending'
    \/ lastOp' = "trigger" /\ changed' /\ hasConsent'
    \/ lastOp' = "timeout"
    \/ lastOp' = "cleanup"

\* C12: a drain re-submits or discards the queued events in the order they
\* were queued, each exactly once (the re-submitted events followed by the
\* discarded ones are the queue as it was, and a drain either re-submits or
\* discards), and the queue is empty when the drain has finished
C12_DrainIsFifoAndEmpties ==
    [][DrainStep =>
        /\ resent' \o discarded' = eventQueue
        /\ resent' = <<>> \/ discarded' = <<>>
        /\ eventQueue' = <<>>]_vars

\* C13: immediately after a reconciliation pass (the setup read or a trigger
\* call that found a change) in which preferences consent goes from granted
\* to denied or undefined, replayStoppedDueToUnsafeSettings is false
C13_FlagClearedWhenPreferencesDenied ==
    (/\ \/ lastOp = "setupOnce" /\ isConsentReady
        \/ lastOp = "trigger" /\ changed
     /\ preferencesWas = "true"
     /\ currentConsentState.preferences # "true")
        => ~replayStoppedDueToUnsafeSettings

\* a trigger call took preferences from granted to denied while recording was
\* paused for unsafe settings
C13_Witness ==
    /\ lastOp = "trigger" /\ changed
    /\ preferencesWas = "true"
    /\ replayWasStopped
    /\ currentConsentState.preferences = "false"
    /\ ~replayStoppedDueToUnsafeSettings

\* the privacy options of a replay instance that are unsafe as section 4.4
\* of the specification lists them
UnsafeSettings(rp) ==
    {k \in ReplayOptionKeys :
        IF k = "networkCaptureBodies" THEN rp[k] = "true" ELSE rp[k] = "false"}

\* the warning list has exactly one entry for each unsafe option
OneWarningPerUnsafeSetting(rp) ==
    /\ Len(ReplayWarnings(rp)) = Cardinality(UnsafeSettings(rp))
    /\ {ReplayWarnings(rp)[i] : i \in 1..Len(ReplayWarnings(rp))}
            = UnsafeSettings(rp)

\* a validateReplayPrivacySettings call on a replay instance with readable
\* options
ValidateStep ==
    lastOp' = "validate" /\ replay.present /\ replay.hasOptions

\* validate() changes nothing when there is no replay instance
ValidateWithoutInstanceIsNoOp ==
    (lastOp' = "validate" /\ ~replay.present)
        => /\ replay' = replay
           /\ replayStoppedDueToUnsafeSettings'
                = replayStoppedDueToUnsafeSettings
           /\ stopCalls' = 0 /\ startCalls' = 0

\* C14 as stated: validate() on an instance with readable options builds one
\* warning for each unsafe option, and invokes stop and sets
\* replayStoppedDueToUnsafeSettings if and only if the list is non-empty;
\* without a replay instance it changes nothing
C14_StopIffWarnings ==
    [][/\ ValidateStep =>
            /\ OneWarningPerUnsafeSetting(replay)
            /\ (stopCalls' = 1 /\ replayStoppedDueToUnsafeSettings')
                    <=> (UnsafeSettings(replay) # {})
            /\ UnsafeSettings(replay) = {} => stopCalls' = 0
       /\ ValidateWithoutInstanceIsNoOp]_vars

\* C14 as amended: stop is invoked if and only if the list is non-empty and
\* the instance has a stopRecording function; the flag becomes true when
\* that call returns and keeps its value when the list is non-empty but
\* stopRecording is missing or throws
C14_StopIffWarningsAndStopAvailable ==
    [][/\ ValidateStep =>
            /\ OneWarningPerUnsafeSetting(replay)
            /\ stopCalls' = 1
                    <=> (UnsafeSettings(replay) # {} /\ replay.hasStop)
            /\ stopCalls' \in {0, 1}
            /\ (UnsafeSettings(replay) # {} /\ replay.hasStop
                    /\ ~replay.stopThrows)
                    => replayStoppedDueToUnsafeSettings'
            /\ (UnsafeSettings(replay) # {}
                    /\ ~(replay.hasStop /\ ~replay.stopThrows))
                    => replayStoppedDueToUnsafeSettings'
                            = replayStoppedDueToUnsafeSettings
            /\ UnsafeSettings(replay) # {} => startCalls' = 0
       /\ ValidateWithoutInstanceIsNoOp]_vars

\* a validate() call that found two unsafe options stopped the recording
C14_Witness ==
    /\ lastOp = "validate"
    /\ Cardinality(UnsafeSettings(replay)) = 2
    /\ stopCalls = 1
    /\ replayStoppedDueToUnsafeSettings
    /\ ~replay.recording

\* C15: validate() with no warnings and the flag true calls startRecording
\* and clears the flag when the call returns; when startRecording is missing
\* or throws the flag stays true and nothing is thrown; with no warnings and
\* the flag false neither stop nor start is invoked
C15_ResumeWhenSafe ==
    [][(ValidateStep /\ UnsafeSettings(replay) = {}) =>
        /\ ~thrown'
        /\ stopCalls' = 0
        /\ IF replayStoppedDueToUnsafeSettings
           THEN IF replay.hasStart
                THEN /\ startCalls' = 1
                     /\ replayStoppedDueToUnsafeSettings'
                            = replay.startThrows
                ELSE /\ startCalls' = 0
                     /\ replayStoppedDueToUnsafeSettings'
           ELSE /\ startCalls' = 0
                /\ ~replayStoppedDueToUnsafeSettings']_vars

\* a validate() call found the options corrected and resumed the recording
\* it had stopped
C15_Witness ==
    /\ lastOp = "validate"
    /\ replayWasStopped
    /\ UnsafeSettings(replay) = {}
    /\ startCalls = 1
    /\ ~replayStoppedDueToUnsafeSettings
    /\ replay.recording

\* a validate() call that directly follows another one on the same unsafe
\* options, the first of which stopped the recording
RevalidateUnsafeStep ==
    /\ ValidateStep
    /\ lastOp = "validate"
    /\ UnsafeSettings(replay) # {}
    /\ replayStoppedDueToUnsafeSettings

\* C16 as stated: re-running validate() with unchanged unsafe settings keeps
\* the flag true, does not invoke stop again and throws nothing
C16_RevalidateDoesNotStopAgain ==
    [][RevalidateUnsafeStep =>
        /\ replayStoppedDueToUnsafeSettings'
        /\ stopCalls' = 0
        /\ ~thrown']_vars

\* C16 as amended: the flag stays true and nothing is thrown, and stop is
\* invoked once more by the re-run
C16_RevalidateStaysPaused ==
    [][RevalidateUnsafeStep =>
        /\ replayStoppedDueToUnsafeSettings'
        /\ stopCalls' = 1
        /\ startCalls' = 0
        /\ ~replay'.recording
        /\ ~thrown']_vars

\* validate() was re-run on unsafe options it had already stopped for
C16_Witness ==
    /\ lastOp = "validate"
    /\ revalidated
    /\ replayWasStopped
    /\ UnsafeSettings(replay) # {}
    /\ replayStoppedDueToUnsafeSettings
    /\ stopCalls = 1

\* C17: after a reconciliation pass with marketing denied the scope has no
\* user, none of its tags has a key of the marketing lexicon, the tags it
\* had with other keys are still there, and the contexts marketing, campaign
\* and cohort are cleared
C17_MarketingDeniedClearsScope ==
    (PassApplied /\ currentConsentState.marketing = "false") =>
        /\ scope.user = "none"
        /\ \A t \in scope.tags : ~isMarketingTag(t)
        /\ {t \in SampleScope.tags : ~isMarketingTag(t)} \subseteq scope.tags
        /\ scope.contexts \cap MarketingContexts = {}

\* C18: a pass that grants marketing after a pass that denied it leaves the
\* user and the marketing tags of the scope as they were at setup time
C18_MarketingRegrantRestoresScope ==
    [][(/\ client
        /\ lastOp' = "trigger" /\ changed'
        /\ currentConsentState.marketing = "false"
        /\ currentConsentState'.marketing = "true") =>
            /\ scope'.user = SampleScope.user
            /\ {t \in SampleScope.tags : isMarketingTag(t)}
                    \subseteq scope'.tags]_vars

\* C19: setupOnce() and processEvent() never throw to the host, whether a
\* consent getter throws, onConsentChange throws, applying the configuration
\* fails or there is no telemetry client; and as long as no consent read has
\* succeeded after setup, processEvent returns null
C19_PublicHooksNeverThrow ==
    /\ lastOp \in {"setupOnce", "processEvent"} => ~thrown
    /\ (lastOp = "processEvent" /\ phase = "setup" /\ ~readSucceeded)
            => ret = Null

\* setupOnce() returned although the initial read and onConsentChange both
\* threw
C19_Witness ==
    /\ lastOp = "setupOnce"
    /\ ~readSucceeded
    /\ timerPending
    /\ ~consentChangeCleanup
    /\ ~thrown

\* C20: cleanup() leaves no timeout pending, has called the unsubscribe
\* function that onConsentChange returned, leaves the queue empty and
\* replayStoppedDueToUnsafeSettings false; and after a cleanup() that followed
\* setupOnce no timeout is pending again, so the timeout callback never runs
C20_CleanupCancelsTimeoutAndResets ==
    [][/\ lastOp' = "cleanup" =>
            /\ ~timerPending' /\ ~timeoutId'
            /\ consentChangeCleanup
                    => unsubscribeCalls' = unsubscribeCalls + 1
            /\ ~consentChangeCleanup' /\ ~subscribed'
            /\ eventQueue' = <<>>
            /\ ~replayStoppedDueToUnsafeSettings'
       /\ (cleanedUp /\ phase = "setup" /\ ~timerPending) =>
            /\ ~timerPending'
            /\ lastOp' # "timeout"]_vars

\* cleanup() was called while readiness was Pending after setup: it
\* cancelled the timeout, unsubscribed and discarded the queued events
C20_Witness ==
    /\ lastOp = "cleanup"
    /\ phase = "setup"
    /\ ~isConsentReady
    /\ ~timerPending
    /\ unsubscribeCalls = 1
    /\ discarded # <<>>

\* C21: a cleanup() call that directly follows another one changes no field
\* of the integration and nothing of the host and does not call the
\* unsubscribe function; over any number of cleanup() calls the unsubscribe
\* function is called at most once; and cleanup() never throws, also before
\* setupOnce has run
C21_CleanupIsIdempotent ==
    [][/\ (lastOp = "cleanup" /\ lastOp' = "cleanup") =>
            /\ UNCHANGED <<integrationVars, hostVars>>
            /\ unsubscribeCalls' = unsubscribeCalls
       /\ unsubscribeCalls' <= 1
       /\ lastOp' = "cleanup" => ~thrown']_vars

\* cleanup() was called again after a cleanup() that had unsubscribed
C21_Witness ==
    /\ lastOp = "cleanup"
    /\ wasCleanedUp
    /\ unsubscribeCalls = 1
    /\ ~thrown

\* C22: after a trigger call that found the consent state changed, with a
\* telemetry client present, every purpose-gated option of the client has
\* the value the table of section 4.2 gives for the new snapshot and
\* OriginalConfig
C22_NotificationSynchronizesConfig ==
    (client /\ lastOp = "trigger" /\ changed) =>
        /\ currentConsentState = lastRead
        /\ \A k \in GatedKeys :
            clientOptions[k]
                = TablePatch(lastRead, originalSentryConfig)[k]

\* a trigger call that granted analytics only, after every purpose had been
\* denied, set the analytics options back and left the others denied
C22_Witness ==
    /\ client /\ lastOp = "trigger" /\ changed
    /\ afterDenyAll
    /\ lastRead.analytics = "true"
    /\ lastRead.functional = "false"
    /\ clientOptions.maxBreadcrumbs = 87
    /\ clientOptions.tracesSampleRate = 80
    /\ clientOptions.enabled = "false"
    /\ clientOptions.sampleRate = 0

\* C23: readiness never goes back from Ready to Pending; it changes only in
\* a setupOnce whose initial read succeeded or in the timeout callback; and a
\* trigger call never changes it
C23_ReadinessChangesOnceToReady ==
    [][/\ isConsentReady => isConsentReady'
       /\ isConsentReady' # isConsentReady =>
            \/ lastOp' = "setupOnce" /\ readSucceeded'
            \/ lastOp' = "timeout"
       /\ lastOp' = "trigger" => isConsentReady' = isConsentReady]_vars

\* a trigger call granted functional consent while readiness was Pending and
\* left it Pending
C23_Witness ==
    /\ lastOp = "trigger" /\ changed
    /\ hasConsent
    /\ ~isConsentReady
    /\ timerPending

\* C24: setupOnce schedules the timeout only when its initial consent read
\* did not succeed, and the timeout callback never runs after a successful
\* initial read, that is it only ever finds readiness Pending
C24_TimeoutOnlyAfterFailedRead ==
    [][/\ (lastOp' = "setupOnce" /\ timerPending') => ~readSucceeded'
       /\ lastOp' = "timeout" => ~isConsentReady]_vars

\* C25: a trigger call whose getters return the retained snapshot, and a
\* functional value equal to the gating flag, changes nothing: the client
\* options, the scope, the snapshot and the gating flag keep their values,
\* stop and start are not invoked, and the queue is neither re-submitted nor
\* cleared
C25_UnchangedNotificationIsNoOp ==
    [][(/\ lastOp' = "trigger" /\ ~thrown'
        /\ lastRead' = currentConsentState
        /\ OrFalse(lastRead'.functional) = hasConsent) =>
            /\ UNCHANGED <<clientOptions, scope, replay, eventQueue,
                           currentConsentState, hasConsent,
                           replayStoppedDueToUnsafeSettings>>
            /\ stopCalls' = 0 /\ startCalls' = 0
            /\ resent' = <<>> /\ discarded' = <<>>
            /\ steps' = <<>>]_vars

\* a trigger call read the retained snapshot again, with preferences granted
\* and recording paused for unsafe settings, and did not stop it again
C25_Witness ==
    /\ lastOp = "trigger" /\ ~changed /\ ~thrown
    /\ lastRead = currentConsentState
    /\ lastRead.preferences = "true"
    /\ replayStoppedDueToUnsafeSettings
    /\ stopCalls = 0
    /\ steps = <<>>

\* C26: within a pass the patch is assigned to the client before any stop or
\* start of the recording subsystem, and the scope update and every stop or
\* start come before the queue drain, which is the last step
C26_PassStepsInFixedOrder ==
    \A i \in 1..Len(steps), j \in 1..Len(steps) :
        /\ (steps[i] = "Object.assign"
                /\ steps[j] \in {"stopRecording", "startRecording",
                                 "updateSentryScope"})
                => i < j
        /\ (steps[i] \in {"processQueuedEvents", "clearEventQueue"})
                => (j <= i)

\* C27: once OriginalConfig is captured, deriving the patch for any
\* ConsentState from it leaves replayStoppedDueToUnsafeSettings and the replay
\* instance as they are and invokes neither stop nor start
C27_DerivationHasNoSideEffects ==
    phase = "setup" =>
        \A cs \in ConsentStates :
            \E built \in {buildConsentBasedConfig(cs, originalSentryConfig,
                                                  client, GuardNow)} :
                /\ built.guard.replay = replay
                /\ built.guard.flag = replayStoppedDueToUnsafeSettings
                /\ built.guard.stops = 0
                /\ built.guard.starts = 0

\* C28: once setupOnce has captured it, the stored original configuration
\* never changes again: not by a consent pass, a timeout, a cleanup, a
\* checkAndResumeReplay call, nor by a host that writes to the object
\* getOriginalSentryConfig() returned
C28_OriginalConfigNeverChanges ==
    [][phase = "setup" => originalSentryConfig' = originalSentryConfig]_vars

\* the host has written to the object the accessor returned, after the
\* capture, and the stored configuration still holds the captured values
C28_Witness ==
    /\ lastOp = "getOriginalSentryConfig"
    /\ phase = "setup"
    /\ client
    /\ originalSentryConfig.maxBreadcrumbs = DemoOptions.maxBreadcrumbs
    /\ originalSentryConfig.maxBreadcrumbs # 1

\* C29: a reconciliation pass (the one of setupOnce, of a change
\* notification, or the partial one of a setupOnce whose pass threw) writes
\* only the purpose-gated fields of the client options: every other field
\* keeps its value and no field is added or removed
C29_PassWritesOnlyGatedFields ==
    [][lastOp' \in {"setupOnce", "trigger"} =>
        /\ DOMAIN clientOptions' = DOMAIN clientOptions
        /\ \A k \in DOMAIN clientOptions \ GatedKeys :
                clientOptions'[k] = clientOptions[k]]_vars

\* a pass has denied every purpose: the gated fields are written, the
\* environment field still holds what Sentry.init was given
C29_Witness ==
    /\ PassApplied
    /\ clientOptions.sampleRate = 0
    /\ clientOptions.maxBreadcrumbs = 0
    /\ clientOptions.sampleRate # initialOptions.sampleRate
    /\ "environment" \in DOMAIN clientOptions \ GatedKeys
    /\ clientOptions.environment = "development"

\* C30: when a consent getter throws during a change notification the
\* failure is recovered locally: nothing is thrown to the caller of the
\* trigger function, and the snapshot, the gating flag, the client options,
\* the queue and the guard flag are unchanged
C30_NotificationReadFailureIsRecovered ==
    [][ConsentChangeThrows =>
        /\ ~thrown'
        /\ UNCHANGED <<currentConsentState, hasConsent, clientOptions,
                       eventQueue, replayStoppedDueToUnsafeSettings>>]_vars

\* C31: in a drain (a pass that reached processQueuedEvents) with
\* functional consent granted, a Sentry.capture* call
\* that throws is swallowed: nothing is thrown to the caller, every queued
\* event is still handed to Sentry.capture* in queue order, and (when the
\* integration is ready and a client exists) exactly the events whose
\* capture did not throw pass the gate, in queue order
C31_DrainSwallowsCaptureFailure ==
    [][(/\ hasConsent'
        /\ lastOp' \in {"setupOnce", "trigger"}
        /\ "processQueuedEvents" \in Range(steps')) =>
        /\ ~thrown'
        /\ resent' = eventQueue
        /\ captureFailed' =
                SelectSeq(eventQueue, LAMBDA e : e \in Range(captureFailed'))
        /\ (client /\ isConsentReady') =>
                delivered' =
                    SelectSeq(eventQueue,
                              LAMBDA e : e \notin Range(captureFailed'))]_vars

\* a drain of two queued events in which the capture of the first threw and
\* the second was still re-submitted and passed the gate
C31_Witness ==
    /\ lastOp \in {"setupOnce", "trigger"}
    /\ hasConsent /\ isConsentReady
    /\ ~thrown
    /\ Len(resent) = 2
    /\ captureFailed = <<resent[1]>>
    /\ delivered = <<resent[2]>>

\* C32 as stated: validateReplayPrivacySettings runs in setupOnce when the
\* initial read yields preferences = true, and in every change notification
\* whose read yields preferences = true, whether or not the consent state
\* changed
C32_ValidateOnEveryGrantedRead ==
    (/\ \/ lastOp = "setupOnce" /\ isConsentReady /\ ~timerPending
        \/ lastOp = "trigger" /\ ~thrown
     /\ client
     /\ Truthy(lastRead.preferences))
        => "validateReplayPrivacySettings" \in Range(steps)

\* C32 as amended: with a telemetry client, validateReplayPrivacySettings
\* runs in every applied pass whose read has preferences = true, as the first
\* call of the pass and before the patch is assigned.  The pass of setupOnce
\* is always applied once its read returned, also when the scope update
\* throws afterwards.  A change notification is applied exactly when its read
\* differs from the retained snapshot or the functional value of the read
\* (undefined as false) differs from the gating flag; a notification that
\* meets neither condition makes no call at all and runs no validation
C32_ValidateOnEveryAppliedGrantedPass ==
    [][(client /\ Truthy(lastRead'.preferences)) =>
        /\ lastOp' = "setupOnce" =>
            /\ Len(steps') > 1
            /\ steps'[1] = "validateReplayPrivacySettings"
            /\ "Object.assign" \in Range(steps')
        /\ (/\ lastOp' = "trigger"
            /\ \/ lastRead' # currentConsentState
               \/ OrFalse(lastRead'.functional) # hasConsent) =>
            /\ Len(steps') > 1
            /\ steps'[1] = "validateReplayPrivacySettings"
            /\ "Object.assign" \in Range(steps')
        /\ (/\ lastOp' = "trigger"
            /\ lastRead' = currentConsentState
            /\ OrFalse(lastRead'.functional) = hasConsent) =>
            /\ steps' = <<>>
            /\ stopCalls' = 0 /\ startCalls' = 0
            /\ UNCHANGED <<clientOptions, replay,
                           replayStoppedDueToUnsafeSettings>>]_vars

\* a change notification granted preferences while the retained state had
\* them denied, and validation ran in it
C32_Witness ==
    /\ lastOp = "trigger" /\ changed /\ client
    /\ preferencesWas = "false"
    /\ lastRead.preferences = "true"
    /\ steps[1] = "validateReplayPrivacySettings"

\* the validateReplayPrivacySettings calls among the steps of a pass
ValidationSteps(sq) ==
    Len(SelectSeq(sq, LAMBDA x : x = "validateReplayPrivacySettings"))

\* C33: in a change-notification pass that runs to its end
\* handleReplayConsentChange compares the
\* preferences value retained before the pass with the value just read.  In
\* a pass that reads preferences = true and leaves the flag set, the
\* handling re-validates (a second validation after the one of the patch
\* derivation) exactly when the retained value differed from the new one
C33_ReplayHandlingComparesPreviousSnapshot ==
    [][(/\ client
        /\ lastOp' = "trigger" /\ changed' /\ ~thrown'
        /\ Truthy(lastRead'.preferences)
        /\ replayStoppedDueToUnsafeSettings') =>
            (ValidationSteps(steps') = 2
                <=> currentConsentState.preferences
                        # lastRead'.preferences)]_vars

\* C34: checkAndResumeReplay() returns true exactly when the flag was set,
\* the retained snapshot grants preferences, and its re-validation invoked
\* start, left recording on and cleared the flag; when the flag is not set
\* or preferences are not granted it returns false, invokes neither stop nor
\* start and changes no state
C34_CheckAndResumeResult ==
    [][lastOp' = "checkAndResumeReplay" =>
        /\ resumed' <=>
                /\ replayStoppedDueToUnsafeSettings
                /\ Truthy(currentConsentState.preferences)
                /\ startCalls' = 1
                /\ replay'.recording
                /\ ~replayStoppedDueToUnsafeSettings'
        /\ (~replayStoppedDueToUnsafeSettings
                \/ ~Truthy(currentConsentState.preferences)) =>
                /\ ~resumed'
                /\ stopCalls' = 0 /\ startCalls' = 0
                /\ UNCHANGED <<integrationVars, hostVars>>
        /\ ~thrown']_vars

\* the integrator fixed the replay options after the guard had stopped
\* recording, and checkAndResumeReplay() resumed it and returned true
C34_Witness ==
    /\ lastOp = "checkAndResumeReplay"
    /\ resumed
    /\ startCalls = 1 /\ stopCalls = 0
    /\ replay.recording
    /\ ~replayStoppedDueToUnsafeSettings
    /\ currentConsentState.preferences = "true"

\* C35: a dropped event is never re-submitted.  Only events that are in the
\* queue are ever handed to Sentry.capture*; an event blocked while ready
\* with functional consent denied is returned as null and does not enter the
\* queue; and the events discarded by a denied determination (initial read
\* or timeout) leave the queue, which is empty afterwards, without being
\* re-submitted
C35_DroppedEventsNeverResubmitted ==
    [][/\ Range(resent') \subseteq Range(eventQueue)
       /\ (lastOp' = "processEvent" /\ isConsentReady /\ ~hasConsent) =>
            /\ ret' = Null
            /\ eventQueue' = eventQueue
            /\ arg' \notin Range(resent')
       /\ (lastOp' \in {"setupOnce", "timeout"} /\ discarded' # <<>>) =>
            /\ discarded' = eventQueue
            /\ eventQueue' = <<>>
            /\ resent' = <<>> /\ delivered' = <<>>]_vars

\* readiness was reached by the timeout (no read ever succeeded), which
\* emptied the queue, and a later processEvent call blocked an event
\* without queueing it
C35_Witness ==
    /\ lastOp = "processEvent"
    /\ isConsentReady /\ ~hasConsent
    /\ ret = Null
    /\ eventQueue = <<>>
    /\ readSucceeded = FALSE

\* C36: when a trigger call whose getter reads succeeded has returned, the
\* retained snapshot holds the values that call read and the gating flag is
\* the functional value of that snapshot (false when undefined), whatever
\* timeouts and notifications came before
C36_SnapshotEqualsLastRead ==
    (lastOp = "trigger" /\ ~thrown) =>
        /\ currentConsentState = lastRead
        /\ hasConsent = OrFalse(currentConsentState.functional)

\* a notification that found a change read functional = true while ready:
\* the snapshot and the gating flag follow the read
C36_Witness ==
    /\ lastOp = "trigger" /\ ~thrown /\ changed
    /\ lastRead.functional = "true"
    /\ hasConsent
    /\ isConsentReady

\* C37: between operations, the event queue is empty whenever the
\* integration is ready
C37_QueueEmptyWhenReady ==
    isConsentReady => eventQueue = <<>>

\* C38: whenever an operation of the integration invokes startRecording, the
\* recording options it validated contain no unsafe setting, the retained
\* snapshot grants preferences, and the flag was set
C38_StartOnlyWhenSafeAndGranted ==
    [][startCalls' > 0 =>
        /\ ReplayWarnings(replay) = <<>>
        /\ ReplayWarnings(replay') = <<>>
        /\ Truthy(currentConsentState'.preferences)
        /\ replayStoppedDueToUnsafeSettings]_vars

\* a change notification that keeps preferences granted resumed recording
\* after the host had made the recording options safe
C38_Witness ==
    /\ lastOp = "trigger" /\ changed
    /\ startCalls = 1
    /\ replay.recording
    /\ ReplayWarnings(replay) = <<>>
    /\ currentConsentState.preferences = "true"
    /\ ~replayStoppedDueToUnsafeSettings

\* C39: recording that the guard stopped is resumed once preferences are
\* granted again and the recording options are safe, by the re-granting
\* pass or at the latest by a following checkAndResumeReplay() call: when
\* such a call has returned (no cleanup before it, preferences granted,
\* options safe, startRecording available and not throwing) recording is on
C39_ResumedAfterRevokeAndRegrant ==
    (/\ lastOp = "checkAndResumeReplay"
     /\ ~cleanedUp
     /\ client
     /\ replay.present /\ replay.hasOptions
     /\ ReplayWarnings(replay) = <<>>
     /\ replay.hasStart /\ ~replay.startThrows
     /\ Truthy(currentConsentState.preferences))
        => replay.recording

\* C40: once cleanup() has been called the event queue stays empty:
\* processEvent appends nothing to it, also when cleanup() was called while
\* the integration was still pending
C40_QueueStaysEmptyAfterCleanup ==
    cleanedUp => eventQueue = <<>>

====
